---- MODULE Spec2Model ----
(***************************************************************************)
(* FileXSorter: the duplicate scan of src/src/scanner.rs as a state        *)
(* machine.  One behaviour of Spec is one call of                          *)
(* Scanner::scan_directories_with_progress on a small directory tree,      *)
(* made on a Scanner or by the thread start_scan of src/src/app.rs spawns, *)
(* interleaved with the host (which polls the counters, may set the        *)
(* cancellation flag at any moment and takes the result) and with other    *)
(* processes that change files on disk.  One behaviour of PureSpec is one  *)
(* call of format_size or of generate_unique_path, one of OpsSpec a few    *)
(* calls of FileOperations (src/src/file_ops.rs) on a small file system,   *)
(* and one of AppSpec a sequence of clicks in the window of                *)
(* FileXSorterApp interleaved with the threads its scans run on.           *)
(***************************************************************************)
EXTENDS Integers, Sequences, FiniteSets, TLC

\* ------------------------------------------------------------------ bounds

\* Number of file paths of the modelled directory tree.
NumPaths == 4
\* How many times another process changes or removes a file during one scan.
MaxMods == 1
\* Number of worker threads of the thread pool that runs par_iter.
PoolSize == 2
\* How many times a Scanner whose flag is set is called again.
MaxCalls == 2

\* ------------------------------------------------------- program constants

\* The ceiling on a file's size, 10 GiB.  File sizes are counted in GiB
\* throughout the scan model (TLC's integers are 32 bits wide).
MAX_FILE_SIZE == 10

\* The constant named as the cap on hashing threads.
MAX_PARALLEL_THREADS == 8

\* ------------------------------------------------------------ environment

\* The number of files of the directory "many": one more than
\* MAX_PARALLEL_THREADS.
ManyFiles == MAX_PARALLEL_THREADS + 1

Paths == 1..(NumPaths + ManyFiles)

\* The tree: directory "top" holds paths 1, 2 and 3 and the directory
\* "sub", which holds every other path up to NumPaths.  The directory
\* "many", apart from them, holds ManyFiles files of the same bytes.
DirOf(p) == IF p <= 3 THEN "top" ELSE IF p <= NumPaths THEN "sub" ELSE "many"

\* File contents: a size and a tag that tells apart different byte
\* strings of the same size.
ContentX == [size |-> 1, bytes |-> "x"]
ContentY == [size |-> 1, bytes |-> "y"]
ContentZ == [size |-> 2, bytes |-> "x"]

\* A file larger than MAX_FILE_SIZE.
ContentHuge == [size |-> MAX_FILE_SIZE + 1, bytes |-> "x"]

Contents == { ContentX, ContentY, ContentZ, ContentHuge }

\* A path that names no file (removed, or never there).
Gone == [size |-> 0, bytes |-> "gone"]

DiskValues == Contents \cup {Gone}

\* The contents a path may hold when the scan starts.
InitialContents(p) ==
  IF p = 1 \/ p > NumPaths THEN { ContentX }
  ELSE IF p % 3 = 2 THEN { ContentY }
  ELSE IF p % 3 = 0 THEN { ContentX, ContentZ }
  ELSE { ContentY, ContentZ, ContentHuge }

\* ScannerConfig.min_size values drawn for a scan.
MinSizes == {1, 2}

\* A call of the scan: the root list and the recursive flag, on a tree with
\* every directory readable and no symbolic link, run on a pool of PoolSize
\* threads while the host may cancel and other processes may change files.
Input(rs, recursive) ==
  [ roots |-> rs, recursive |-> recursive, unreadable |-> {}, links |-> FALSE,
    threads |-> PoolSize, quiet |-> FALSE ]

\* The calls drawn for a scan.  No root; one root, with and without its
\* subdirectory; two roots; one root given twice; a root with an
\* unreadable subdirectory; a root that holds symbolic links; a root and a
\* directory nested in it; the directory "many" on a pool of more than
\* MAX_PARALLEL_THREADS threads, with nobody cancelling or changing files.
ScanInputs ==
  { Input(<<>>, TRUE),
    Input(<<"top">>, TRUE),
    Input(<<"top">>, FALSE),
    Input(<<"sub", "top">>, FALSE),
    Input(<<"sub", "sub">>, TRUE),
    [Input(<<"top">>, TRUE) EXCEPT !.unreadable = {"sub"}],
    [Input(<<"sub">>, TRUE) EXCEPT !.links = TRUE],
    [Input(<<"top", "sub">>, TRUE) EXCEPT !.quiet = TRUE],
    [Input(<<"many">>, FALSE) EXCEPT !.threads = MAX_PARALLEL_THREADS + 1,
                                     !.quiet = TRUE] }

\* Values the two progress counters may hold when a scan starts: fresh, or
\* left by an earlier scan that completed or was cancelled.
LeftoverCounters == { <<0, 0>>, <<1, 2>> }

\* Where a behaviour starts: "request", the host's start_scan is about to
\* run on the selected folders; "idle", a scan method of a Scanner is about
\* to be called on the root list.
EntryPoints == {"request", "idle"}

\* status_message: None, and the message of a rejected request.
NoMessage == "none"
NoFolderMessage == "Please add at least one folder to scan."
OperationMessage == "Deleted or moved files."
ScanningMessage == "Scanning folder(s)..."
CancelledMessage == "Scan cancelled."
NoDuplicatesMessage == "No duplicates found."
FoundMessage == "Found duplicate groups"

\* std::sync::atomic::Ordering, as far as the program uses it.
Relaxed == "Relaxed"
SeqCst == "SeqCst"

\* Option<String>::None, in the shape of a digest.
NoHash == << "none", 0, "" >>

VARIABLES
  roots,                \* paths: &[PathBuf]
  config,               \* ScannerConfig
  disk,                 \* path -> content now on disk
  mods,                 \* changes other processes may still make
  pc,                   \* position of the coordinator in the scan
  path_idx,             \* index of the root the for loop is at
  walker,               \* entries the current WalkDir has still to yield
  files,                \* the collected FileEntry list
  potential_duplicates, \* the size-filtered list handed to hash_files
  results,              \* per file of potential_duplicates: the map closure
  hashed_files,         \* what hash_files returns
  result,               \* the ScanResult under construction
  outcome,              \* how the call returned
  progress_current,     \* AtomicUsize
  progress_total,       \* AtomicUsize
  cancel_flag,          \* AtomicBool
  armed,                \* history: units past their flag check when the flag was set
  late,                 \* history: units started while the flag was set
  hash_calls,           \* history: entries compute_file_hash was called on
  err_log,              \* history: every error message produced so far
  visited,              \* history: the entries whose metadata was read, with the size read
  returned_from,        \* history: the position the call returned from
  cancelled_at,         \* history: the position of the scan when the flag was set
  unreadable,           \* the directories the walker cannot read
  io_failures,          \* history: the I/O failures met during traversal
  status_message,       \* the host's status line
  first_result,         \* the result of the first scan, when the roots are scanned again
  links,                \* whether the tree holds the symbolic links
  overtaken,            \* history: the digests one entry of which was hashed after a later one
  num_threads,          \* the number of threads of the pool par_iter runs on
  cancels,              \* requests to cancel the host may still make
  calls_since_cancel,   \* history: the calls begun on the Scanner with its flag set
  is_scanning,          \* FileXSorterApp.is_scanning
  scan_handle,          \* FileXSorterApp.scan_handle is Some
  is_complete,          \* ScanState.is_complete
  state_result,         \* ScanState.result: empty for None
  scan_result,          \* FileXSorterApp.scan_result: empty for None
  orderings,            \* history: the kinds of access made to the counters and the flag
  call,                 \* a call of format_size or generate_unique_path
  ops_fs,               \* the files FileOperations works on: path -> entry
  logs,                 \* FileOperations.logs
  op,                   \* the call of delete_file or move_file under way
  performed,            \* history: the calls made, and how many before clear_logs
  app,                  \* FileXSorterApp, as the events of the window change it
  scan_states           \* the ScanState and the thread of every start_scan

vars ==
  << roots, config, disk, mods, pc, path_idx, walker, files,
     potential_duplicates, results, hashed_files, result, outcome,
     progress_current, progress_total, cancel_flag, armed, late,
     hash_calls, err_log, visited, returned_from, cancelled_at,
     unreadable, io_failures, status_message, first_result, links,
     overtaken, num_threads, calls_since_cancel, cancels, is_scanning, scan_handle, is_complete,
     state_result, scan_result, orderings, call, ops_fs, logs, op,
     performed, app, scan_states >>

\* The host's side of a scan.
host_vars == << is_scanning, scan_handle, is_complete, state_result, scan_result >>

\* The side of FileOperations.
ops_vars == << ops_fs, logs, op, performed >>

\* The window and the scans it has started.
app_vars == << app, scan_states >>

\* ---------------------------------------------------------------- helpers

\* An access of the given kind ("load", "store", "rmw") and ordering is made
\* to progress_current, progress_total or cancel_flag.
Accessed(kind, ordering) == orderings \cup { << kind, ordering >> }

Range(s) == { s[i] : i \in DOMAIN s }

RECURSIVE SumSizes(_)
SumSizes(s) == IF s = <<>> THEN 0 ELSE Head(s).size + SumSizes(Tail(s))

RECURSIVE Concat(_)
Concat(ss) == IF ss = <<>> THEN <<>> ELSE Head(ss) \o Concat(Tail(ss))

\* The orders in which a HashMap may iterate over the keys S.
IterationOrders(S) ==
  { o \in [1..Cardinality(S) -> S] : \A i, j \in DOMAIN o : i # j => o[i] # o[j] }

\* The symbolic links of the tree, when it holds them: "sub" has a link to
\* the file LinkTarget of "top" and a link to the directory "top".
FileLink == -1
DirLink == -2
LinkTarget == 1

\* The file an entry names once symbolic links are followed, as
\* Path::is_file, fs::metadata and File::open follow them.
Resolve(e) == IF e = FileLink THEN LinkTarget ELSE e

\* The Err item the walker yields for a directory it cannot read; the
\* other items are the paths of the entries.
WalkError == 0

\* WalkDir::new(path).follow_links(false), with or without max_depth(1):
\* the entries under a root, in directory order.  A symbolic link is
\* yielded as an entry; the walker does not descend through it.
WalkDir(dir, recursive) ==
  LET Yielded(d) ==
        IF ~(d = dir \/ (dir = "top" /\ d = "sub" /\ recursive)) THEN <<>>
        ELSE IF d \in unreadable THEN << WalkError >>
        ELSE SelectSeq([p \in Paths |-> p], LAMBDA p : DirOf(p) = d)
               \o (IF links /\ d = "sub" THEN << FileLink, DirLink >> ELSE <<>>)
  IN Yielded("top") \o Yielded("sub") \o Yielded("many")

\* sha2::Sha256 of a content: a function of the bytes alone, and different
\* contents have different digests.
Sha256(c) == << "sha256", c.size, c.bytes >>

FileEntry(p, size) == [path |-> p, size |-> size, hash |-> NoHash]

DefaultScanResult ==
  [ total_files |-> 0, total_size |-> 0, duplicate_groups |-> <<>>,
    total_duplicates |-> 0, wasted_space |-> 0, errors |-> <<>> ]

\* ------------------------------------------------------------------- Init

\* The directories a call walks.
Walked(in) ==
  { d \in {"top", "sub", "many"} :
      \E k \in DOMAIN in.roots :
        d = in.roots[k] \/ (in.roots[k] = "top" /\ d = "sub" /\ in.recursive) }

\* The trees a call is drawn with: the files of the directories it walks
\* hold any of their initial contents; the other files, which the call
\* never reads, hold one.
Disks(in) ==
  LET free == { p \in 1..NumPaths : DirOf(p) \in Walked(in) }
      Base(p) == CHOOSE c \in InitialContents(p) : TRUE
  IN { [p \in Paths |-> IF p \in free THEN d[p] ELSE Base(p)] :
         d \in { e \in [free -> Contents] : \A p \in free : e[p] \in InitialContents(p) } }

ScanInit ==
  /\ \E in \in ScanInputs, min_size \in MinSizes :
       /\ disk \in Disks(in)
       /\ roots = in.roots
       /\ unreadable = in.unreadable
       /\ links = in.links
       /\ num_threads = in.threads
       /\ cancels = IF in.quiet THEN 0 ELSE 1
       /\ mods = IF in.quiet THEN 0 ELSE MaxMods
       /\ config = [recursive |-> in.recursive, min_size |-> min_size]
  /\ pc \in EntryPoints
  /\ status_message = NoMessage
  /\ first_result = <<>>
  /\ path_idx = 1
  /\ walker = <<>>
  /\ files = <<>>
  /\ potential_duplicates = <<>>
  /\ results = <<>>
  /\ hashed_files = <<>>
  /\ result = DefaultScanResult
  /\ outcome = "none"
  /\ \E c \in LeftoverCounters : progress_current = c[1] /\ progress_total = c[2]
  /\ cancel_flag = FALSE
  /\ armed = {}
  /\ late = {}
  /\ hash_calls = {}
  /\ err_log = {}
  /\ visited = <<>>
  /\ returned_from = "none"
  /\ cancelled_at = "none"
  /\ calls_since_cancel = 0
  /\ io_failures = {}
  /\ overtaken = {}
  /\ is_scanning = FALSE
  /\ scan_handle = FALSE
  /\ is_complete = FALSE
  /\ state_result = <<>>
  /\ scan_result = <<>>
  /\ orderings = {}

\* No call of format_size or generate_unique_path is followed.
NoCall == [fn |-> "none"]

\* No call of delete_file or move_file is followed.
NoOp == [fn |-> "none", pc |-> "none"]

\* No call of delete_file or move_file was made.
NoneMade == [calls |-> 0, cleared |-> 0]

OpsAtRest ==
  /\ ops_fs = << >>
  /\ logs = << >>
  /\ op = NoOp
  /\ performed = NoneMade

\* FileXSorterApp::default, as far as the events followed use it.
DefaultApp ==
  [selected_folders |-> {}, is_scanning |-> FALSE, scan_result |-> << >>,
   scan_state |-> 0, selected_files |-> {},
   show_confirmation_dialog |-> "none", status_message |-> NoMessage]

\* No event of the window is followed.
AppAtRest ==
  /\ app = DefaultApp
  /\ scan_states = << >>

Init == ScanInit /\ call = NoCall /\ OpsAtRest /\ AppAtRest

\* ------------------------------------------------- collection (4.1 of the spec)

\* Mutant: the size test without the minimum.
SizeAcceptedNoMinimum(size) == size <= MAX_FILE_SIZE

\* The size test of collect_files_with_cancel.
SizeAccepted(size) == size >= config.min_size /\ size <= MAX_FILE_SIZE

\* `return result` from scan_directories_with_progress.
Return(how) ==
  /\ pc' = "returned"
  /\ outcome' = how
  /\ returned_from' = pc

\* Mutant: the call does not store 0 to progress_current on entry.
ResetCurrentSkipped ==
  /\ pc = "idle"
  /\ pc' = "reset_total"
  /\ UNCHANGED << roots, config, disk, mods, path_idx, walker, files,
                  potential_duplicates, results, hashed_files, result,
                  outcome, progress_current, progress_total, cancel_flag,
                  armed, late, hash_calls, err_log, visited, returned_from,
                  cancelled_at, unreadable, io_failures, status_message,
                  first_result, links, overtaken, num_threads,
                  calls_since_cancel, cancels, host_vars, orderings, call,
                  ops_vars, app_vars >>

\* progress_current.store(0)
ResetCurrent ==
  /\ pc = "idle"
  /\ orderings' = Accessed("store", Relaxed)
  /\ progress_current' = 0
  /\ pc' = "reset_total"
  /\ UNCHANGED << roots, config, disk, mods, path_idx, walker, files,
                  potential_duplicates, results, hashed_files, result,
                  outcome, progress_total, cancel_flag, armed, late,
                  hash_calls, err_log, visited, returned_from, cancelled_at,
                  unreadable, io_failures, status_message, first_result,
                  links, overtaken, num_threads, calls_since_cancel, cancels,
                  host_vars, call, ops_vars, app_vars >>

\* Mutant: the call does not store 0 to progress_total on entry.
ResetTotalSkipped ==
  /\ pc = "reset_total"
  /\ result' = DefaultScanResult
  /\ files' = <<>>
  /\ pc' = "next_root"
  /\ UNCHANGED << roots, config, disk, mods, path_idx, walker,
                  potential_duplicates, results, hashed_files, outcome,
                  progress_current, progress_total, cancel_flag, armed, late,
                  hash_calls, err_log, visited, returned_from, cancelled_at,
                  unreadable, io_failures, status_message, first_result,
                  links, overtaken, num_threads, calls_since_cancel, cancels,
                  host_vars, orderings, call, ops_vars, app_vars >>

\* progress_total.store(0); result and files start empty
ResetTotal ==
  /\ pc = "reset_total"
  /\ orderings' = Accessed("store", Relaxed)
  /\ progress_total' = 0
  /\ result' = DefaultScanResult
  /\ files' = <<>>
  /\ pc' = "next_root"
  /\ UNCHANGED << roots, config, disk, mods, path_idx, walker,
                  potential_duplicates, results, hashed_files, outcome,
                  progress_current, cancel_flag, armed, late, hash_calls,
                  err_log, visited, returned_from, cancelled_at, unreadable,
                  io_failures, status_message, first_result, links, overtaken,
                  num_threads, calls_since_cancel, cancels, host_vars, call,
                  ops_vars, app_vars >>

\* One turn of `for path in paths.iter()`: the flag check, then the walker
\* of collect_files_with_cancel is built.
NextRoot ==
  /\ pc = "next_root"
  /\ orderings' = IF path_idx > Len(roots) THEN orderings
                  ELSE Accessed("load", Relaxed)
  /\ IF path_idx > Len(roots)
       THEN /\ pc' = "post_collect"
            /\ UNCHANGED << walker, outcome, returned_from >>
       ELSE IF cancel_flag
         THEN /\ Return("Cancelled")
              /\ UNCHANGED walker
         ELSE /\ walker' = WalkDir(roots[path_idx], config.recursive)
              /\ pc' = "walk"
              /\ UNCHANGED << outcome, returned_from >>
  /\ UNCHANGED << roots, config, disk, mods, path_idx, files,
                  potential_duplicates, results, hashed_files, result,
                  progress_current, progress_total, cancel_flag, armed, late,
                  hash_calls, err_log, visited, cancelled_at, unreadable,
                  io_failures, status_message, first_result, links, overtaken,
                  num_threads, calls_since_cancel, cancels, host_vars, call,
                  ops_vars, app_vars >>

\* The walker yields its next entry and the loop body checks the flag; at
\* the end of the walk, or on break, dir_files is appended to files.
WalkNext ==
  /\ pc = "walk"
  /\ orderings' = IF walker = <<>> \/ Head(walker) = WalkError THEN orderings
                  ELSE Accessed("load", Relaxed)
  /\ IF walker # <<>> /\ Head(walker) = WalkError
       THEN \* filter_map(|e| e.ok()) drops the Err and asks for the next item
            /\ walker' = Tail(walker)
            /\ io_failures' = io_failures \cup { << "Failed to read", WalkError >> }
            /\ UNCHANGED << pc, path_idx >>
       ELSE IF walker = <<>> \/ cancel_flag
         THEN /\ walker' = <<>>
              /\ path_idx' = path_idx + 1
              /\ pc' = "next_root"
              /\ UNCHANGED io_failures
         ELSE /\ pc' = "visit"
              /\ UNCHANGED << walker, path_idx, io_failures >>
  /\ UNCHANGED << roots, config, disk, mods, files, potential_duplicates,
                  results, hashed_files, result, outcome, progress_current,
                  progress_total, cancel_flag, armed, late, hash_calls,
                  err_log, visited, returned_from, cancelled_at, unreadable,
                  status_message, first_result, links, overtaken, num_threads,
                  calls_since_cancel, cancels, host_vars, call, ops_vars,
                  app_vars >>

\* Path::is_file of an entry's path: symbolic links are followed.
IsFile(e) == e # DirLink /\ disk[Resolve(e)] # Gone

\* The unit of work the collector is about to do.
EntryUnit == << "entry", path_idx, Head(walker) >>

\* The loop body after the flag check: is_file, metadata, the size test,
\* each of the entry's path with symbolic links followed: a link to a
\* directory is no file, a link to a file is one, of the size of its target.
\* The file may vanish (one change of the disk by another process) after
\* it was listed: before is_file, which then answers false, or between
\* is_file and metadata, which then fails and a message is pushed.
Visit ==
  /\ pc = "visit"
  /\ LET e == Head(walker)
         p == Resolve(e)
     IN
       /\ late' = IF cancel_flag THEN late \cup {EntryUnit} ELSE late
       /\ \/ /\ ~IsFile(e)
             /\ UNCHANGED << files, result, disk, mods, err_log, visited,
                             io_failures >>
          \/ /\ IsFile(e)
             /\ files' = IF SizeAccepted(disk[p].size)
                           THEN Append(files, FileEntry(e, disk[p].size))
                           ELSE files
             /\ visited' = Append(visited, [path |-> e, size |-> disk[p].size])
             /\ UNCHANGED << result, disk, mods, err_log, io_failures >>
          \/ /\ IsFile(e)
             /\ mods > 0
             /\ mods' = mods - 1
             /\ disk' = [disk EXCEPT ![p] = Gone]
             /\ io_failures' = io_failures \cup { << "Failed to read", e >> }
             /\ UNCHANGED << files, result, err_log, visited >>
          \/ /\ IsFile(e)
             /\ mods > 0
             /\ mods' = mods - 1
             /\ disk' = [disk EXCEPT ![p] = Gone]
             /\ result' = [result EXCEPT
                             !.errors = Append(@, << "Failed to read", e >>)]
             /\ err_log' = err_log \cup { << "Failed to read", e >> }
             /\ io_failures' = io_failures \cup { << "Failed to read", e >> }
             /\ UNCHANGED << files, visited >>
  /\ walker' = Tail(walker)
  /\ pc' = "walk"
  /\ UNCHANGED << roots, config, path_idx, potential_duplicates, results,
                  hashed_files, outcome, progress_current, progress_total,
                  cancel_flag, armed, hash_calls, returned_from, cancelled_at,
                  unreadable, status_message, first_result, links, overtaken,
                  num_threads, calls_since_cancel, cancels, host_vars,
                  orderings, call, ops_vars, app_vars >>

\* `if cancel_flag.load() { return result; }` after the collection loop.
PostCollect ==
  /\ pc = "post_collect"
  /\ orderings' = Accessed("load", Relaxed)
  /\ IF cancel_flag
       THEN Return("Cancelled")
       ELSE pc' = "size_filter" /\ UNCHANGED << outcome, returned_from >>
  /\ UNCHANGED << roots, config, disk, mods, path_idx, walker, files,
                  potential_duplicates, results, hashed_files, result,
                  progress_current, progress_total, cancel_flag, armed, late,
                  hash_calls, err_log, visited, cancelled_at, unreadable,
                  io_failures, status_message, first_result, links, overtaken,
                  num_threads, calls_since_cancel, cancels, host_vars, call,
                  ops_vars, app_vars >>

\* -------------------------------------------- size bucketing (4.2 of the spec)

\* group_by_size: the bucket of one size, in collection order.
SizeBucket(fs, size) == SelectSeq(fs, LAMBDA f : f.size = size)

\* Mutant: a bucket of one file kept.
BucketKeptOfOne(bucket) == Len(bucket) >= 1

\* `.filter(|(_, files)| files.len() > 1)`
BucketKept(bucket) == Len(bucket) > 1

\* Mutant: the totals are those of the files kept for hashing.
SizeFilterTotalsOfKept ==
  /\ pc = "size_filter"
  /\ LET sizes == { f.size : f \in Range(files) }
         kept == { s \in sizes : BucketKept(SizeBucket(files, s)) }
     IN \E order \in IterationOrders(kept) :
          LET pd == Concat([i \in DOMAIN order |-> SizeBucket(files, order[i])])
          IN /\ potential_duplicates' = pd
             /\ result' = [result EXCEPT !.total_files = Len(pd),
                                         !.total_size = SumSizes(pd)]
  /\ pc' = "pre_hash"
  /\ UNCHANGED << roots, config, disk, mods, path_idx, walker, files, results,
                  hashed_files, outcome, progress_current, progress_total,
                  cancel_flag, armed, late, hash_calls, err_log, visited,
                  returned_from, cancelled_at, unreadable, io_failures,
                  status_message, first_result, links, overtaken, num_threads,
                  calls_since_cancel, cancels, host_vars, orderings, call,
                  ops_vars, app_vars >>

\* The totals, group_by_size and the flat_map over the HashMap, whose
\* iteration order is not fixed.
SizeFilter ==
  /\ pc = "size_filter"
  /\ LET sizes == { f.size : f \in Range(files) }
         kept == { s \in sizes : BucketKept(SizeBucket(files, s)) }
     IN \E order \in IterationOrders(kept) :
          potential_duplicates' =
            Concat([i \in DOMAIN order |-> SizeBucket(files, order[i])])
  /\ result' = [result EXCEPT !.total_files = Len(files),
                              !.total_size = SumSizes(files)]
  /\ pc' = "pre_hash"
  /\ UNCHANGED << roots, config, disk, mods, path_idx, walker, files, results,
                  hashed_files, outcome, progress_current, progress_total,
                  cancel_flag, armed, late, hash_calls, err_log, visited,
                  returned_from, cancelled_at, unreadable, io_failures,
                  status_message, first_result, links, overtaken, num_threads,
                  calls_since_cancel, cancels, host_vars, orderings, call,
                  ops_vars, app_vars >>

\* `if potential_duplicates.is_empty() || cancel_flag.load() { return result; }`
PreHash ==
  /\ pc = "pre_hash"
  /\ orderings' = IF potential_duplicates = <<>> THEN orderings
                  ELSE Accessed("load", Relaxed)
  /\ IF potential_duplicates = <<>>
       THEN Return("Completed")
       ELSE IF cancel_flag
         THEN Return("Cancelled")
         ELSE pc' = "store_total" /\ UNCHANGED << outcome, returned_from >>
  /\ UNCHANGED << roots, config, disk, mods, path_idx, walker, files,
                  potential_duplicates, results, hashed_files, result,
                  progress_current, progress_total, cancel_flag, armed, late,
                  hash_calls, err_log, visited, cancelled_at, unreadable,
                  io_failures, status_message, first_result, links, overtaken,
                  num_threads, calls_since_cancel, cancels, host_vars, call,
                  ops_vars, app_vars >>

\* ------------------------------------------- parallel hashing (4.3 of the spec)

\* Mutant: the length of the whole collected list is stored.
StoreTotalOfCollected ==
  /\ pc = "store_total"
  /\ orderings' = Accessed("store", Relaxed)
  /\ progress_total' = Len(files)
  /\ pc' = "store_current"
  /\ UNCHANGED << roots, config, disk, mods, path_idx, walker, files,
                  potential_duplicates, results, hashed_files, result,
                  outcome, progress_current, cancel_flag, armed, late,
                  hash_calls, err_log, visited, returned_from, cancelled_at,
                  unreadable, io_failures, status_message, first_result,
                  links, overtaken, num_threads, calls_since_cancel, cancels,
                  host_vars, call, ops_vars, app_vars >>

\* progress_total.store(potential_duplicates.len())
StoreTotal ==
  /\ pc = "store_total"
  /\ orderings' = Accessed("store", Relaxed)
  /\ progress_total' = Len(potential_duplicates)
  /\ pc' = "store_current"
  /\ UNCHANGED << roots, config, disk, mods, path_idx, walker, files,
                  potential_duplicates, results, hashed_files, result,
                  outcome, progress_current, cancel_flag, armed, late,
                  hash_calls, err_log, visited, returned_from, cancelled_at,
                  unreadable, io_failures, status_message, first_result,
                  links, overtaken, num_threads, calls_since_cancel, cancels,
                  host_vars, call, ops_vars, app_vars >>

\* progress_current.store(0); hash_files hands the list to par_iter
StoreCurrent ==
  /\ pc = "store_current"
  /\ orderings' = Accessed("store", Relaxed)
  /\ progress_current' = 0
  /\ results' = [i \in DOMAIN potential_duplicates |->
                   [st |-> "pending", hash |-> NoHash]]
  /\ pc' = "hashing"
  /\ UNCHANGED << roots, config, disk, mods, path_idx, walker, files,
                  potential_duplicates, hashed_files, result, outcome,
                  progress_total, cancel_flag, armed, late, hash_calls,
                  err_log, visited, returned_from, cancelled_at, unreadable,
                  io_failures, status_message, first_result, links, overtaken,
                  num_threads, calls_since_cancel, cancels, host_vars, call,
                  ops_vars, app_vars >>

\* compute_file_hash: metadata, the ceiling, then the digest of the bytes
\* the file holds now.
compute_file_hash(path) ==
  LET p == Resolve(path)
  IN IF disk[p] = Gone \/ disk[p].size > MAX_FILE_SIZE
       THEN [ok |-> FALSE, hash |-> NoHash]
       ELSE [ok |-> TRUE, hash |-> Sha256(disk[p])]

\* The entries whose map closure is past its flag check and in
\* compute_file_hash.
InFlight == { j \in DOMAIN results : results[j].st = "checked" }

FileUnit(i) == << "file", i, potential_duplicates[i].path >>

\* Mutant: the map closure ignores the flag.
SkipsFileNever(flag) == FALSE

\* What the map closure does with the flag it loaded.
SkipsFile(flag) == flag

\* A free worker takes file i and runs the first lines of the map closure:
\* `if cancel_flag.load() { return Err("Cancelled") }`.
HashCheck(i) ==
  /\ pc = "hashing"
  /\ orderings' = Accessed("load", Relaxed)
  /\ results[i].st = "pending"
  /\ Cardinality(InFlight) < num_threads
  /\ results' = [results EXCEPT ![i].st =
                   IF SkipsFile(cancel_flag) THEN "cancelled" ELSE "checked"]
  /\ UNCHANGED << roots, config, disk, mods, pc, path_idx, walker, files,
                  potential_duplicates, hashed_files, result, outcome,
                  progress_current, progress_total, cancel_flag, armed, late,
                  hash_calls, err_log, visited, returned_from, cancelled_at,
                  unreadable, io_failures, status_message, first_result,
                  links, overtaken, num_threads, calls_since_cancel, cancels,
                  host_vars, call, ops_vars, app_vars >>

\* The entries listed after entry i whose closure returned Ok with digest
\* hash before that of entry i did.
OvertakenBy(i, hash) ==
  { j \in DOMAIN results : j > i /\ results[j].st = "ok" /\ results[j].hash = hash }

\* Mutant: fetch_add placed before the match, so that a failed hash counts.
HashComputeCountsFailures(i) ==
  /\ pc = "hashing"
  /\ orderings' = Accessed("rmw", Relaxed)
  /\ results[i].st = "checked"
  /\ LET file == potential_duplicates[i]
         h == compute_file_hash(file.path)
     IN /\ results' = [results EXCEPT ![i] =
                         IF h.ok THEN [st |-> "ok", hash |-> h.hash]
                                 ELSE [st |-> "err", hash |-> NoHash]]
        /\ progress_current' = progress_current + 1
        /\ err_log' = IF h.ok THEN err_log
                      ELSE err_log \cup { << "Failed to hash", file.path >> }
        /\ hash_calls' = hash_calls \cup { file }
        /\ overtaken' = IF h.ok /\ OvertakenBy(i, h.hash) # {}
                          THEN overtaken \cup {h.hash} ELSE overtaken
  /\ late' = IF cancel_flag THEN late \cup {FileUnit(i)} ELSE late
  /\ UNCHANGED << roots, config, disk, mods, pc, path_idx, walker, files,
                  potential_duplicates, hashed_files, result, outcome,
                  progress_total, cancel_flag, armed, visited, returned_from,
                  cancelled_at, unreadable, io_failures, status_message,
                  first_result, links, num_threads, calls_since_cancel,
                  cancels, host_vars, call, ops_vars, app_vars >>

\* The rest of the map closure for file i: compute_file_hash, and on
\* success the clone with its digest and progress_current.fetch_add(1).
HashCompute(i) ==
  /\ pc = "hashing"
  /\ orderings' = IF compute_file_hash(potential_duplicates[i].path).ok
                  THEN Accessed("rmw", Relaxed) ELSE orderings
  /\ results[i].st = "checked"
  /\ LET file == potential_duplicates[i]
         h == compute_file_hash(file.path)
     IN /\ results' = [results EXCEPT ![i] =
                         IF h.ok THEN [st |-> "ok", hash |-> h.hash]
                                 ELSE [st |-> "err", hash |-> NoHash]]
        /\ progress_current' = IF h.ok THEN progress_current + 1
                                       ELSE progress_current
        /\ err_log' = IF h.ok THEN err_log
                      ELSE err_log \cup { << "Failed to hash", file.path >> }
        /\ hash_calls' = hash_calls \cup { file }
        /\ overtaken' = IF h.ok /\ OvertakenBy(i, h.hash) # {}
                          THEN overtaken \cup {h.hash} ELSE overtaken
  /\ late' = IF cancel_flag THEN late \cup {FileUnit(i)} ELSE late
  /\ UNCHANGED << roots, config, disk, mods, pc, path_idx, walker, files,
                  potential_duplicates, hashed_files, result, outcome,
                  progress_total, cancel_flag, armed, visited, returned_from,
                  cancelled_at, unreadable, io_failures, status_message,
                  first_result, links, num_threads, calls_since_cancel,
                  cancels, host_vars, call, ops_vars, app_vars >>

Indices(s) == [i \in DOMAIN s |-> i]

\* Mutant: the failed entries are kept, without a digest.
HashedFilesKeepsFailed(fs, rs) ==
  LET kept == SelectSeq(Indices(rs), LAMBDA i : rs[i].st \in {"ok", "err"})
  IN [k \in DOMAIN kept |-> [fs[kept[k]] EXCEPT !.hash = rs[kept[k]].hash]]

\* Mutant: the Ok entries in an order that follows completion: not the
\* list order when an entry was hashed after a later one of its digest.
HashedFilesAsCompleted(fs, rs) ==
  LET ok == SelectSeq(Indices(rs), LAMBDA i : rs[i].st = "ok")
      n == Len(ok)
      at(k) == IF overtaken = {} THEN ok[k] ELSE ok[n + 1 - k]
  IN [k \in DOMAIN ok |-> [fs[at(k)] EXCEPT !.hash = rs[at(k)].hash]]

\* The loop over the collected results: the Ok entries, in list order.
HashedFiles(fs, rs) ==
  LET ok == SelectSeq(Indices(rs), LAMBDA i : rs[i].st = "ok")
  IN [k \in DOMAIN ok |-> [fs[ok[k]] EXCEPT !.hash = rs[ok[k]].hash]]

\* Mutant: the "Cancelled" results are pushed to errors like the others.
HashErrorsWithCancelled(fs, rs) ==
  LET bad == SelectSeq(Indices(rs), LAMBDA i : rs[i].st \in {"err", "cancelled"})
  IN [k \in DOMAIN bad |->
        IF rs[bad[k]].st = "err" THEN << "Failed to hash", fs[bad[k]].path >>
                                 ELSE << "Cancelled", fs[bad[k]].path >>]

\* The loop over the collected results: the messages other than "Cancelled".
HashErrors(fs, rs) ==
  LET bad == SelectSeq(Indices(rs), LAMBDA i : rs[i].st = "err")
  IN [k \in DOMAIN bad |-> << "Failed to hash", fs[bad[k]].path >>]

\* Mutant: collect() waits for an Ok or a "Cancelled" from every closure,
\* as if a failed hash took its worker down.
AllDoneWithoutFailure(rs) == \A i \in DOMAIN rs : rs[i].st \in {"ok", "cancelled"}

\* collect() returns when every closure has returned its Ok or its Err.
AllDone(rs) == \A i \in DOMAIN rs : rs[i].st \in {"ok", "err", "cancelled"}

\* par_iter().map().collect() is complete; hash_files sorts the results
\* into hashed_files and errors and returns.
HashCollect ==
  /\ pc = "hashing"
  /\ AllDone(results)
  /\ hashed_files' = HashedFiles(potential_duplicates, results)
  /\ result' = [result EXCEPT
                  !.errors = @ \o HashErrors(potential_duplicates, results)]
  /\ pc' = "post_hash"
  /\ UNCHANGED << roots, config, disk, mods, path_idx, walker, files,
                  potential_duplicates, results, outcome, progress_current,
                  progress_total, cancel_flag, armed, late, hash_calls,
                  err_log, visited, returned_from, cancelled_at, unreadable,
                  io_failures, status_message, first_result, links, overtaken,
                  num_threads, calls_since_cancel, cancels, host_vars,
                  orderings, call, ops_vars, app_vars >>

\* Mutant: no flag check after hash_files.
PostHashWithoutCheck ==
  /\ pc = "post_hash"
  /\ pc' = "group"
  /\ UNCHANGED << roots, config, disk, mods, path_idx, walker, files,
                  potential_duplicates, results, hashed_files, result,
                  outcome, progress_current, progress_total, cancel_flag,
                  armed, late, hash_calls, err_log, visited, returned_from,
                  cancelled_at, unreadable, io_failures, status_message,
                  first_result, links, overtaken, num_threads,
                  calls_since_cancel, cancels, host_vars, orderings, call,
                  ops_vars, app_vars >>

\* `if cancel_flag.load() { return result; }` after hash_files.
PostHash ==
  /\ pc = "post_hash"
  /\ orderings' = Accessed("load", Relaxed)
  /\ IF cancel_flag
       THEN Return("Cancelled")
       ELSE pc' = "group" /\ UNCHANGED << outcome, returned_from >>
  /\ UNCHANGED << roots, config, disk, mods, path_idx, walker, files,
                  potential_duplicates, results, hashed_files, result,
                  progress_current, progress_total, cancel_flag, armed, late,
                  hash_calls, err_log, visited, cancelled_at, unreadable,
                  io_failures, status_message, first_result, links, overtaken,
                  num_threads, calls_since_cancel, cancels, host_vars, call,
                  ops_vars, app_vars >>

\* ----------------------------------- grouping and assembly (4.4, 4.5 of the spec)

\* `if let Some(ref hash) = file.hash` of group_by_hash.
HasDigest(f) == f.hash # NoHash

\* group_by_hash: the entries of one digest, in list order.
HashClass(fs, hash) == SelectSeq(fs, LAMBDA f : f.hash = hash)

\* Mutant: a class of one file kept as a group.
IsDuplicateClassOfOne(fs) == Len(fs) >= 1

\* `if files.len() > 1`
IsDuplicateClass(fs) == Len(fs) > 1

\* Mutant: every member of a class counted as a duplicate.
DuplicatesInAll(fs) == Len(fs)

\* `files.len() - 1`, added to total_duplicates
DuplicatesIn(fs) == Len(fs) - 1

\* The DuplicateGroup pushed for one digest.
MakeGroup(hash, fs) ==
  LET total_size == SumSizes(fs)
  IN [ hash |-> hash, files |-> fs, total_size |-> total_size,
       wasted_size |-> total_size - fs[1].size ]

\* The loop `for (hash, files) in hash_groups`, in the iteration order given.
RECURSIVE PushGroups(_, _, _)
PushGroups(res, fs, order) ==
  IF order = <<>> THEN res
  ELSE LET class == HashClass(fs, Head(order))
           g == MakeGroup(Head(order), class)
           next == IF IsDuplicateClass(class)
                     THEN [res EXCEPT
                             !.total_duplicates = @ + DuplicatesIn(class),
                             !.wasted_space = @ + g.wasted_size,
                             !.duplicate_groups = Append(@, g)]
                     ELSE res
       IN PushGroups(next, fs, Tail(order))

\* sort_by(|a, b| b.wasted_size.cmp(&a.wasted_size)): a stable sort.
RECURSIVE SortByWasted(_)
SortByWasted(gs) ==
  IF gs = <<>> THEN <<>>
  ELSE LET n == Len(gs)
           sorted == SortByWasted(SubSeq(gs, 1, n - 1))
           g == gs[n]
       IN SelectSeq(sorted, LAMBDA x : x.wasted_size >= g.wasted_size)
            \o << g >>
            \o SelectSeq(sorted, LAMBDA x : x.wasted_size < g.wasted_size)

\* Mutant: the scan removes the files it hashed as duplicates of another.
GroupRemovingDuplicates ==
  /\ pc = "group"
  /\ LET hashes == { f.hash : f \in { h \in Range(hashed_files) : HasDigest(h) } }
     IN \E order \in IterationOrders(hashes) :
          LET pushed == PushGroups(result, hashed_files, order)
          IN result' = [pushed EXCEPT
                          !.duplicate_groups = SortByWasted(@)]
  /\ disk' = [p \in Paths |->
               IF \E k \in DOMAIN hashed_files :
                    /\ Resolve(hashed_files[k].path) = p
                    /\ \E j \in 1..(k - 1) : hashed_files[j].hash = hashed_files[k].hash
                 THEN Gone ELSE disk[p]]
  /\ Return("Completed")
  /\ UNCHANGED << roots, config, mods, path_idx, walker, files,
                  potential_duplicates, results, hashed_files,
                  progress_current, progress_total, cancel_flag, armed, late,
                  hash_calls, err_log, visited, cancelled_at, unreadable,
                  io_failures, status_message, first_result, links, overtaken,
                  num_threads, calls_since_cancel, cancels, host_vars,
                  orderings, call, ops_vars, app_vars >>

\* group_by_hash, the loop over the HashMap (whose iteration order is not
\* fixed), the sort, and `result`.
Group ==
  /\ pc = "group"
  /\ LET hashes == { f.hash : f \in { h \in Range(hashed_files) : HasDigest(h) } }
     IN \E order \in IterationOrders(hashes) :
          LET pushed == PushGroups(result, hashed_files, order)
          IN result' = [pushed EXCEPT
                          !.duplicate_groups = SortByWasted(@)]
  /\ Return("Completed")
  /\ UNCHANGED << roots, config, disk, mods, path_idx, walker, files,
                  potential_duplicates, results, hashed_files,
                  progress_current, progress_total, cancel_flag, armed, late,
                  hash_calls, err_log, visited, cancelled_at, unreadable,
                  io_failures, status_message, first_result, links, overtaken,
                  num_threads, calls_since_cancel, cancels, host_vars,
                  orderings, call, ops_vars, app_vars >>

\* ------------------------------------------------------------ environment

\* The units of work whose flag check has passed and whose work has not
\* been done yet.
ArmedUnits ==
  (IF pc = "visit" THEN {EntryUnit} ELSE {})
    \cup { FileUnit(i) : i \in { j \in DOMAIN results : results[j].st = "checked" } }

\* The cancellation flag is set.  For a scan the host started this is
\* cancel_scan, which the Cancel button calls while is_scanning holds: the
\* flag is stored SeqCst, is_scanning is cleared and the status line set.
\* For a scan called on a Scanner it is Scanner::cancel, a Relaxed store,
\* made while the call runs.
Cancel ==
  /\ IF scan_handle
       THEN is_scanning
       ELSE pc \notin {"request", "rejected", "returned", "finished", "reset"}
  /\ first_result = <<>>
  /\ cancels > 0
  /\ ~cancel_flag
  /\ cancel_flag' = TRUE
  /\ orderings' = Accessed("store", IF scan_handle THEN SeqCst ELSE Relaxed)
  /\ is_scanning' = FALSE
  /\ status_message' = IF scan_handle THEN CancelledMessage ELSE status_message
  /\ cancels' = cancels - 1
  /\ armed' = ArmedUnits
  /\ cancelled_at' = pc
  /\ UNCHANGED << roots, config, disk, mods, pc, path_idx, walker, files,
                  potential_duplicates, results, hashed_files, result,
                  outcome, progress_current, progress_total, late, hash_calls,
                  err_log, visited, returned_from, unreadable, io_failures,
                  first_result, links, overtaken, num_threads,
                  calls_since_cancel, state_result, scan_result, is_complete,
                  scan_handle, call, ops_vars, app_vars >>

\* Another process rewrites or removes a file while the scan runs.  A
\* change made before the file is collected is a different initial disk,
\* and a change to a file the scan does not read again is never seen: the
\* changes that make a difference fall between the collection of a file
\* and its hashing, and are taken when the list to hash is known.
Modify(p, v) ==
  /\ pc = "store_total"
  /\ \E i \in DOMAIN potential_duplicates : Resolve(potential_duplicates[i].path) = p
  /\ mods > 0
  /\ disk[p] # v
  /\ disk' = [disk EXCEPT ![p] = v]
  /\ mods' = mods - 1
  /\ UNCHANGED << roots, config, pc, path_idx, walker, files,
                  potential_duplicates, results, hashed_files, result,
                  outcome, progress_current, progress_total, cancel_flag,
                  armed, late, hash_calls, err_log, visited, returned_from,
                  cancelled_at, unreadable, io_failures, status_message,
                  first_result, links, overtaken, num_threads,
                  calls_since_cancel, cancels, host_vars, orderings, call,
                  ops_vars, app_vars >>

\* ------------------------------------------------------------------- host

\* Mutant: start_scan without its guard.
RejectsRequestNever(folders) == FALSE

\* `if self.selected_folders.is_empty()` of start_scan.
RejectsRequest(folders) == folders = <<>>

\* start_scan: an empty folder list is answered with a status message;
\* otherwise a new ScanState (counters 0, flag false) is made and the scan
\* thread is spawned.
StartScan ==
  /\ pc = "request"
  /\ IF RejectsRequest(roots)
       THEN /\ status_message' = NoFolderMessage
            /\ pc' = "rejected"
            /\ UNCHANGED << progress_current, progress_total, cancel_flag,
                            host_vars >>
       ELSE /\ is_scanning' = TRUE
            /\ scan_result' = <<>>
            /\ progress_current' = 0
            /\ progress_total' = 0
            /\ cancel_flag' = FALSE
            /\ is_complete' = FALSE
            /\ state_result' = <<>>
            /\ scan_handle' = TRUE
            /\ status_message' = ScanningMessage
            /\ pc' = "idle"
  /\ UNCHANGED << roots, config, disk, mods, path_idx, walker, files,
                  potential_duplicates, results, hashed_files, result,
                  outcome, armed, late, hash_calls, err_log, visited,
                  returned_from, cancelled_at, unreadable, io_failures,
                  first_result, links, overtaken, num_threads,
                  calls_since_cancel, cancels, orderings, call, ops_vars,
                  app_vars >>

\* The end of the closure of the scan thread: the result is put into the
\* ScanState under its lock.
StoreResult ==
  /\ pc = "returned"
  /\ scan_handle
  /\ state_result' = << result >>
  /\ pc' = "stored"
  /\ UNCHANGED << roots, config, disk, mods, path_idx, walker, files,
                  potential_duplicates, results, hashed_files, result,
                  outcome, progress_current, progress_total, cancel_flag,
                  armed, late, hash_calls, err_log, visited, returned_from,
                  cancelled_at, unreadable, io_failures, status_message,
                  first_result, links, overtaken, num_threads,
                  calls_since_cancel, cancels, is_scanning, scan_handle,
                  is_complete, scan_result, orderings, call, ops_vars,
                  app_vars >>

\* is_complete.store(true, SeqCst); the thread ends.
SetComplete ==
  /\ pc = "stored"
  /\ is_complete' = TRUE
  /\ pc' = "finished"
  /\ UNCHANGED << roots, config, disk, mods, path_idx, walker, files,
                  potential_duplicates, results, hashed_files, result,
                  outcome, progress_current, progress_total, cancel_flag,
                  armed, late, hash_calls, err_log, visited, returned_from,
                  cancelled_at, unreadable, io_failures, status_message,
                  first_result, links, overtaken, num_threads,
                  calls_since_cancel, cancels, is_scanning, scan_handle,
                  state_result, scan_result, orderings, call, ops_vars,
                  app_vars >>

\* Mutant: check_scan_complete without its test of is_scanning.
TakesResultAlways(scanning, complete) == complete

\* `if !self.is_scanning { return; }` and
\* `if self.scan_state.is_complete.load(SeqCst)` of check_scan_complete.
TakesResult(scanning, complete) == scanning /\ complete

\* check_scan_complete, called at the start of every frame: once the scan
\* is complete the result is taken out of the ScanState, the thread is
\* joined and the status line tells what was found.
CheckScanComplete ==
  /\ TakesResult(is_scanning, is_complete)
  /\ state_result # <<>>
  /\ scan_result' = state_result
  /\ state_result' = <<>>
  /\ is_scanning' = FALSE
  /\ scan_handle' = FALSE
  /\ status_message' = IF state_result[1].duplicate_groups = <<>>
                         THEN NoDuplicatesMessage ELSE FoundMessage
  /\ UNCHANGED << roots, config, disk, mods, pc, path_idx, walker, files,
                  potential_duplicates, results, hashed_files, result,
                  outcome, progress_current, progress_total, cancel_flag,
                  armed, late, hash_calls, err_log, visited, returned_from,
                  cancelled_at, unreadable, io_failures, first_result, links,
                  overtaken, num_threads, calls_since_cancel, cancels,
                  is_complete, orderings, call, ops_vars, app_vars >>

\* The frame drawn while is_scanning holds: the two counters are loaded,
\* Relaxed, for the progress label.
Poll ==
  /\ is_scanning
  /\ orderings' = Accessed("load", Relaxed)
  /\ UNCHANGED << roots, config, disk, mods, pc, path_idx, walker, files,
                  potential_duplicates, results, hashed_files, result,
                  outcome, progress_current, progress_total, cancel_flag,
                  armed, late, hash_calls, err_log, visited, returned_from,
                  cancelled_at, unreadable, io_failures, status_message,
                  first_result, links, overtaken, num_threads,
                  calls_since_cancel, cancels, host_vars, call, ops_vars,
                  app_vars >>

\* The same roots are scanned once more with the same configuration (by
\* the host once it has taken the result, or by a second call on the
\* Scanner), after a scan that completed without cancellation, change of
\* the tree or failure.  The second scan is followed undisturbed, the case of a
\* repeated scan of an unmodified tree; a cancelled or disturbed second scan
\* is a scan like the first.
ScanAgain ==
  /\ \/ pc = "returned" /\ ~scan_handle
     \/ pc = "finished" /\ scan_result # <<>>
  /\ outcome = "Completed"
  /\ first_result = <<>>
  /\ ~cancel_flag
  /\ mods = MaxMods
  /\ io_failures = {}
  /\ first_result' = << result >>
  /\ mods' = 0
  /\ pc' = "idle"
  /\ path_idx' = 1
  /\ walker' = <<>>
  /\ files' = <<>>
  /\ potential_duplicates' = <<>>
  /\ results' = <<>>
  /\ hashed_files' = <<>>
  /\ result' = DefaultScanResult
  /\ outcome' = "none"
  /\ armed' = {}
  /\ late' = {}
  /\ hash_calls' = {}
  /\ err_log' = {}
  /\ visited' = <<>>
  /\ returned_from' = "none"
  /\ cancelled_at' = "none"
  /\ overtaken' = {}
  /\ IF pc = "finished"
       THEN \* start_scan: a new ScanState, a new thread
            /\ is_scanning' = TRUE
            /\ scan_result' = <<>>
            /\ progress_current' = 0
            /\ progress_total' = 0
            /\ is_complete' = FALSE
            /\ state_result' = <<>>
            /\ scan_handle' = TRUE
            /\ status_message' = ScanningMessage
       ELSE UNCHANGED << progress_current, progress_total, status_message,
                         host_vars >>
  /\ UNCHANGED << roots, config, disk, cancel_flag, unreadable, io_failures,
                  links, num_threads, calls_since_cancel, cancels, orderings,
                  call, ops_vars, app_vars >>

\* Mutant: a call clears the flag on entry, as start_scan does by making
\* a new ScanState.
FlagOnEntryCleared(flag) == FALSE

\* scan_directory and scan_directories hand the Scanner's own flag to
\* scan_directories_with_progress, which loads it and never stores to it.
FlagOnEntry(flag) == flag

\* scan_directories is called again on a Scanner whose flag is set: the
\* call before has returned, reset() was not called.
CallAgain ==
  /\ pc = "returned"
  /\ ~scan_handle
  /\ cancel_flag
  /\ calls_since_cancel < MaxCalls
  /\ calls_since_cancel' = calls_since_cancel + 1
  /\ cancel_flag' = FlagOnEntry(cancel_flag)
  /\ cancelled_at' = "idle"
  /\ pc' = "idle"
  /\ path_idx' = 1
  /\ walker' = <<>>
  /\ files' = <<>>
  /\ potential_duplicates' = <<>>
  /\ results' = <<>>
  /\ hashed_files' = <<>>
  /\ result' = DefaultScanResult
  /\ outcome' = "none"
  /\ armed' = {}
  /\ late' = {}
  /\ hash_calls' = {}
  /\ err_log' = {}
  /\ visited' = <<>>
  /\ returned_from' = "none"
  /\ overtaken' = {}
  /\ UNCHANGED << roots, config, disk, mods, progress_current, progress_total,
                  unreadable, io_failures, status_message, first_result,
                  links, num_threads, cancels, host_vars, orderings, call,
                  ops_vars, app_vars >>

\* Scanner::reset, called when no call on the Scanner is in progress.
Reset ==
  /\ pc = "returned"
  /\ ~scan_handle
  /\ cancel_flag' = FALSE
  /\ progress_current' = 0
  /\ progress_total' = 0
  /\ orderings' = Accessed("store", Relaxed)
  /\ calls_since_cancel' = 0
  /\ pc' = "reset"
  /\ UNCHANGED << roots, config, disk, mods, path_idx, walker, files,
                  potential_duplicates, results, hashed_files, result,
                  outcome, armed, late, hash_calls, err_log, visited,
                  returned_from, cancelled_at, unreadable, io_failures,
                  status_message, first_result, links, overtaken, num_threads,
                  cancels, host_vars, call, ops_vars, app_vars >>

\* The calls the owner of a Scanner makes on it between two scans.
Owner == CallAgain \/ Reset

Host == StartScan \/ ScanAgain \/ CheckScanComplete \/ Poll

Thread == StoreResult \/ SetComplete

\* ------------------------------------------------------------------- Next

Collector ==
  ResetCurrent \/ ResetTotal \/ NextRoot \/ WalkNext \/ Visit \/ PostCollect

Coordinator ==
  SizeFilter \/ PreHash \/ StoreTotal \/ StoreCurrent \/ HashCollect
    \/ PostHash \/ Group

Workers ==
  \E i \in DOMAIN results : HashCheck(i) \/ HashCompute(i)

Environment ==
  Cancel \/ \E p \in Paths, v \in DiskValues : Modify(p, v)

Scan == Collector \/ Coordinator \/ Workers

Next == Host \/ Thread \/ Scan \/ Environment \/ Owner

Spec == Init /\ [][Next]_vars

\* The host runs start_scan to its end, and the operating system schedules
\* the scan thread and the pool's workers.
FairSpec == Spec /\ WF_vars(Host \/ Thread \/ Scan)

\* ------------------------------------------------- format_size (scanner.rs)

KB == 1024
MB == KB * 1024
GB == MB * 1024

\* bytes / unit rounded to hundredths, ties to even, as `{:.2}` prints an
\* f64: the quotient by a power of two is exact in an f64 for the sizes
\* below 2^31 followed here.  100 * bytes is kept as A * MB + B, so that
\* no product leaves 32 bits.
Hundredths(bytes, unit) ==
  LET lo == bytes % MB
      A == 100 * (bytes \div MB) + (100 * lo) \div MB
      B == (100 * lo) % MB
      q == IF unit = KB THEN (100 * bytes) \div KB
           ELSE IF unit = MB THEN A
           ELSE A \div 1024
      r == IF unit = KB THEN (100 * bytes) % KB
           ELSE IF unit = MB THEN B
           ELSE (A % 1024) * MB + B
  IN IF 2 * r > unit \/ (2 * r = unit /\ q % 2 = 1) THEN q + 1 ELSE q

\* The string "<int>.<frac> <unit>", frac of two digits.
Decimal(h, unit) == [int |-> h \div 100, frac |-> h % 100, unit |-> unit]

\* The string "<int> bytes".
Plain(n) == [int |-> n, frac |-> -1, unit |-> "bytes"]

\* Mutant: the units selected by `>` in place of `>=`.
format_size_above(bytes) ==
  IF bytes > GB THEN Decimal(Hundredths(bytes, GB), "GB")
  ELSE IF bytes > MB THEN Decimal(Hundredths(bytes, MB), "MB")
  ELSE IF bytes > KB THEN Decimal(Hundredths(bytes, KB), "KB")
  ELSE Plain(bytes)

format_size(bytes) ==
  IF bytes >= GB THEN Decimal(Hundredths(bytes, GB), "GB")
  ELSE IF bytes >= MB THEN Decimal(Hundredths(bytes, MB), "MB")
  ELSE IF bytes >= KB THEN Decimal(Hundredths(bytes, KB), "KB")
  ELSE Plain(bytes)

\* The sizes format_size is applied to: the five of test_format_size, the
\* values on both sides of each threshold, a tie of the rounding (1152 is
\* 1.125 KB) and sizes up to 2^31 - 1.
SizeInputs ==
  { 0, 1, 500, 1023, 1024, 1025, 1152, 1536, 10240, 1048575, 1048576,
    1048577, 1572864, 5242880, 1073741823, 1073741824, 1073741825,
    1610612736, 2147483647 }

\* --------------------------------------- generate_unique_path (file_ops.rs)

\* A file name is a sequence of characters; Invalid stands for a byte
\* sequence that is not UTF-8, which a file name on Unix may hold.
Invalid == "<ff>"

Dot == "."

Chars(str) ==
  CASE str = "test" -> << "t", "e", "s", "t" >>
    [] str = "txt" -> << "t", "x", "t" >>
    [] str = "file" -> << "f", "i", "l", "e" >>
    [] str = "notes" -> << "n", "o", "t", "e", "s" >>
    [] str = "a.tar" -> << "a", ".", "t", "a", "r" >>
    [] str = "gz" -> << "g", "z" >>
    [] str = ".profile" -> << ".", "p", "r", "o", "f", "i", "l", "e" >>
    [] str = "doc" -> << "d", "o", "c" >>

\* The name stem.ext.
Name(stem, ext) == stem \o << Dot >> \o ext

Digits == << "0", "1", "2", "3", "4", "5", "6", "7", "8", "9" >>

RECURSIVE Dec(_)
\* format!("{}", counter)
Dec(n) ==
  IF n < 10 THEN << Digits[n + 1] >>
  ELSE Dec(n \div 10) \o << Digits[(n % 10) + 1] >>

\* The position of the last dot of a name after its first character, 0
\* when there is none.
LastDot(name) ==
  LET dots == { i \in 2..Len(name) : name[i] = Dot }
  IN IF dots = {} THEN 0 ELSE CHOOSE i \in dots : \A j \in dots : j <= i

\* Path::file_stem and Path::extension, of a file name: the parts before
\* and after the last dot, a leading dot being part of the stem; the
\* extension is None (empty here) when there is no such dot.
file_stem(name) ==
  IF LastDot(name) = 0 THEN name ELSE SubSeq(name, 1, LastDot(name) - 1)

extension(name) ==
  IF LastDot(name) = 0 THEN << >>
  ELSE SubSeq(name, LastDot(name) + 1, Len(name))

\* OsStr::to_str: Some exactly for valid UTF-8.
IsUtf8(s) == \A i \in DOMAIN s : s[i] # Invalid

\* `.and_then(|s| s.to_str()).unwrap_or(default)`
OrDefault(s, default) == IF IsUtf8(s) THEN s ELSE default

\* The safety limit of the loop.
SafetyLimit == 10000

\* Uuid::new_v4().to_string(): a name no directory holds.
uuid_simple == << "#uuid" >>

\* A directory: the names it holds, given one by one in `names`, and with
\* them prefix ++ k ++ suffix for every k of 1..upto.
Directory(names, prefix, suffix, upto) ==
  [names |-> names, prefix |-> prefix, suffix |-> suffix, upto |-> upto]

IsDigit(c) == \E d \in DOMAIN Digits : Digits[d] = c

RECURSIVE Value(_)
\* The number a sequence of digits denotes.
Value(ds) ==
  IF ds = << >> THEN 0
  ELSE 10 * Value(SubSeq(ds, 1, Len(ds) - 1))
         + (CHOOSE d \in 0..9 : Digits[d + 1] = ds[Len(ds)])

\* Path::exists, of a name in the directory.
Exists(dir, name) ==
  \/ name \in dir.names
  \/ LET np == Len(dir.prefix)
         ns == Len(dir.suffix)
         mid == SubSeq(name, np + 1, Len(name) - ns)
     IN /\ dir.upto > 0
        /\ Len(name) > np + ns
        /\ Len(name) <= np + ns + 5
        /\ SubSeq(name, 1, np) = dir.prefix
        /\ SubSeq(name, Len(name) - ns + 1, Len(name)) = dir.suffix
        /\ \A i \in DOMAIN mid : IsDigit(mid[i])
        /\ mid[1] # "0"
        /\ Value(mid) \in 1..dir.upto

\* format!("{}_{}", stem, counter) or format!("{}_{}.{}", stem, counter,
\* extension).
NewName(stem, counter, ext) ==
  IF ext = << >> THEN stem \o << "_" >> \o counter
  ELSE stem \o << "_" >> \o counter \o << Dot >> \o ext

\* The calls of generate_unique_path followed: a name that exists in the
\* directory (move_file calls the function only then) and the directory.
PathInputs ==
  LET test == Name(Chars("test"), Chars("txt"))
      targz == Name(Chars("a.tar"), Chars("gz"))
      nostem == Name(<< Invalid >>, Chars("txt"))
      noext == Name(Chars("doc"), << Invalid >>)
      numbered(stem, k, ext) == NewName(stem, Dec(k), ext)
      none == Directory({}, << >>, << >>, 0)
      run(n) == Directory({test}, Chars("test") \o << "_" >>,
                          << Dot >> \o Chars("txt"), n)
  IN { << test, [none EXCEPT !.names = {test}] >>,
       << test, run(1) >>,
       << test, [none EXCEPT !.names =
                   {test, numbered(Chars("test"), 2, Chars("txt"))}] >>,
       << test, run(SafetyLimit - 1) >>,
       << test, run(SafetyLimit) >>,
       << Chars("notes"),
          [none EXCEPT !.names =
             {Chars("notes"), numbered(Chars("notes"), 1, << >>)}] >>,
       << targz, [none EXCEPT !.names = {targz}] >>,
       << Chars(".profile"), [none EXCEPT !.names = {Chars(".profile")}] >>,
       << nostem, [none EXCEPT !.names = {nostem}] >>,
       << nostem, [none EXCEPT !.names =
                     {nostem, numbered(Chars("file"), 1, Chars("txt"))}] >>,
       << noext, [none EXCEPT !.names = {noext}] >> }

\* ------------------------------------------------ the calls of the helpers

PureCalls ==
  { [fn |-> "format_size", bytes |-> b, returned |-> FALSE, ret |-> << >>] :
      b \in SizeInputs }
  \cup
  { [fn |-> "generate_unique_path", path |-> in[1], dir |-> in[2],
     stem |-> OrDefault(file_stem(in[1]), Chars("file")),
     extension |-> OrDefault(extension(in[1]), << >>),
     counter |-> 1, returned |-> FALSE, ret |-> << >>] : in \in PathInputs }

\* The helpers are called with the scanner at rest.
\* The scanner at rest: no scan is requested or under way.
ScanAtRest ==
  /\ ScanInit
  /\ roots = << >>
  /\ pc = "idle"
  /\ config.min_size = 1
  /\ progress_current = 0

PureInit ==
  /\ ScanAtRest
  /\ call \in PureCalls
  /\ OpsAtRest
  /\ AppAtRest

scan_vars ==
  << roots, config, disk, mods, pc, path_idx, walker, files,
     potential_duplicates, results, hashed_files, result, outcome,
     progress_current, progress_total, cancel_flag, armed, late,
     hash_calls, err_log, visited, returned_from, cancelled_at,
     unreadable, io_failures, status_message, first_result, links,
     overtaken, num_threads, calls_since_cancel, cancels, host_vars, orderings >>

FormatSize ==
  /\ call.fn = "format_size"
  /\ ~call.returned
  /\ call' = [call EXCEPT !.returned = TRUE, !.ret = format_size(call.bytes)]
  /\ UNCHANGED << scan_vars, ops_vars, app_vars >>

\* The name the loop of generate_unique_path tries at its counter.
new_name == NewName(call.stem, Dec(call.counter), call.extension)

\* `if !new_path.exists() { return new_path; }`
ReturnNewPath ==
  /\ call.fn = "generate_unique_path"
  /\ ~call.returned
  /\ ~Exists(call.dir, new_name)
  /\ call' = [call EXCEPT !.returned = TRUE, !.ret = new_name]
  /\ UNCHANGED << scan_vars, ops_vars, app_vars >>

\* `if counter > 10000`
PastLimit(counter) == counter > SafetyLimit

\* `counter += 1;` and the safety limit, past which the name is
\* stem_<uuid>, returned without a look at the directory.
TryNext ==
  /\ call.fn = "generate_unique_path"
  /\ ~call.returned
  /\ Exists(call.dir, new_name)
  /\ call' = IF PastLimit(call.counter + 1)
               THEN [call EXCEPT !.counter = @ + 1, !.returned = TRUE,
                                 !.ret = call.stem \o << "_" >> \o uuid_simple]
               ELSE [call EXCEPT !.counter = @ + 1]
  /\ UNCHANGED << scan_vars, ops_vars, app_vars >>

PureNext == FormatSize \/ ReturnNewPath \/ TryNext

PureSpec == PureInit /\ [][PureNext]_vars

\* ------------------------------------------ FileOperations (file_ops.rs)

\* How many calls of delete_file and move_file are followed.
MaxOps == 2

\* What a path names: nothing, a symbolic link whose target does not
\* exist, or a file of some content.
Absent == "absent"
Dangling == "dangling"
FileContents == {"A", "B", "C"}

\* The directories files are moved between.  "new" does not exist until
\* create_dir_all makes it; "denied" cannot be created.
OpsDirs == {"src", "dst", "new"}
Uncreatable == "denied"

TestName == Name(Chars("test"), Chars("txt"))

\* The names the calls followed can come to: the source's and its
\* numbered ones.
OpsNames ==
  { TestName } \cup
  { NewName(Chars("test"), Dec(k), Chars("txt")) : k \in 1..(MaxOps + 1) }

OpsPaths == OpsDirs \X OpsNames

\* The trees the operations start on: the source file alone, a file of
\* the same name in the destination, two numbered names taken, and a
\* dangling symbolic link of the source's name in the destination.
InitialFs ==
  LET only == [p \in OpsPaths |->
                 IF p = << "src", TestName >> THEN "A" ELSE Absent]
      one == NewName(Chars("test"), Dec(1), Chars("txt"))
  IN { only,
       [only EXCEPT ![<< "dst", TestName >>] = "B"],
       [only EXCEPT ![<< "dst", TestName >>] = "B", ![<< "dst", one >>] = "B"],
       [only EXCEPT ![<< "dst", TestName >>] = Dangling] }

\* Path::exists: the metadata of the path can be read, symbolic links
\* followed.
PathExists(p) == ops_fs[p] \notin {Absent, Dangling}

\* The names Path::exists finds in a directory.
Listing(d) ==
  Directory({ n \in OpsNames : PathExists(<< d, n >>) }, << >>, << >>, 0)

RECURSIVE UniqueFrom(_, _, _, _)
\* The loop of generate_unique_path from a counter on.
UniqueFrom(stem, ext, dir, counter) ==
  IF ~Exists(dir, NewName(stem, Dec(counter), ext))
    THEN NewName(stem, Dec(counter), ext)
  ELSE IF PastLimit(counter + 1) THEN stem \o << "_" >> \o uuid_simple
  ELSE UniqueFrom(stem, ext, dir, counter + 1)

\* generate_unique_path, of a name in a directory.
generate_unique_path(name, dir) ==
  UniqueFrom(OrDefault(file_stem(name), Chars("file")),
             OrDefault(extension(name), << >>), dir, 1)

\* A call of move_file or delete_file on entry.  `faults` tells which of
\* rename, copy and remove_file the operating system refuses (a move
\* across file systems, a full disk, a read-only directory); `races` how
\* many files another process creates during the call; `pre` is the tree
\* at the call; `via` and `overwrote` are history.
Op(fn, source, dest_dir, faults, races) ==
  [fn |-> fn, pc |-> IF fn = "move_file" THEN "create_dir" ELSE "remove",
   source |-> source, dest_dir |-> dest_dir, dest_path |-> << >>,
   faults |-> faults, races |-> races, pre |-> ops_fs, ret |-> "none",
   via |-> "none", overwrote |-> FALSE]

Faults == SUBSET {"rename", "copy", "remove"}

\* The calls made since the last clear_logs.
SinceCleared == performed.calls - performed.cleared

\* No call is under way.
OpsIdle == op.pc \in {"none", "done"}

OperationLog(operation, source, destination, success) ==
  [operation |-> operation, source |-> source, destination |-> destination,
   success |-> success]

\* delete_file: fs::remove_file and the log entry of either outcome.
DeleteFile ==
  \E path \in {<< "src", TestName >>, << "dst", TestName >>},
     faults \in {{}, {"remove"}} :
    /\ OpsIdle
    /\ performed.calls < MaxOps
    /\ LET ok == ops_fs[path] # Absent /\ "remove" \notin faults
       IN /\ ops_fs' = IF ok THEN [ops_fs EXCEPT ![path] = Absent] ELSE ops_fs
          /\ logs' = Append(logs, OperationLog("DELETE", path, << >>, ok))
          /\ op' = [Op("delete_file", path, path[1], faults, 0) EXCEPT
                      !.pc = "done",
                      !.ret = IF ok THEN "Success" ELSE "Error"]
    /\ performed' = [performed EXCEPT !.calls = @ + 1]
    /\ UNCHANGED << scan_vars, call, app_vars >>

\* move_file is called.
CallMove ==
  \E dest_dir \in OpsDirs \cup {Uncreatable}, faults \in Faults,
     races \in {0, 1} :
    /\ OpsIdle
    /\ performed.calls < MaxOps
    /\ op' = Op("move_file", << "src", TestName >>, dest_dir, faults, races)
    /\ performed' = [performed EXCEPT !.calls = @ + 1]
    /\ UNCHANGED << scan_vars, call, ops_fs, logs, app_vars >>

\* fs::create_dir_all(dest_dir): an error other than AlreadyExists is
\* returned at once.
MoveCreateDir ==
  /\ op.fn = "move_file"
  /\ op.pc = "create_dir"
  /\ op' = IF op.dest_dir = Uncreatable
             THEN [op EXCEPT !.pc = "done", !.ret = "Error"]
             ELSE [op EXCEPT !.pc = "build"]
  /\ UNCHANGED << scan_vars, call, ops_fs, logs, performed, app_vars >>

\* dest_dir.join(file_name), replaced by generate_unique_path when it
\* exists.
MoveBuildPath ==
  /\ op.fn = "move_file"
  /\ op.pc = "build"
  /\ LET dest_path == << op.dest_dir, op.source[2] >>
     IN op' = [op EXCEPT
                 !.pc = "rename",
                 !.dest_path =
                    IF PathExists(dest_path)
                      THEN << op.dest_dir,
                              generate_unique_path(op.source[2],
                                                   Listing(op.dest_dir)) >>
                      ELSE dest_path]
  /\ UNCHANGED << scan_vars, call, ops_fs, logs, performed, app_vars >>

\* fs::rename(source, &dest_path): it replaces what dest_path names; when
\* it fails the copy is tried.
MoveRename ==
  /\ op.fn = "move_file"
  /\ op.pc = "rename"
  /\ IF ops_fs[op.source] # Absent /\ "rename" \notin op.faults
       THEN /\ ops_fs' = [ops_fs EXCEPT ![op.dest_path] = ops_fs[op.source],
                                        ![op.source] = Absent]
            /\ logs' = Append(logs, OperationLog("MOVE", op.source,
                                                 op.dest_path, TRUE))
            /\ op' = [op EXCEPT
                        !.pc = "done", !.ret = "Success", !.via = "rename",
                        !.overwrote = ops_fs[op.dest_path] # Absent]
       ELSE /\ op' = [op EXCEPT !.pc = "copy"]
            /\ UNCHANGED << ops_fs, logs >>
  /\ UNCHANGED << scan_vars, call, performed, app_vars >>

\* fs::copy(source, &dest_path) after a failed rename.
MoveCopy ==
  /\ op.fn = "move_file"
  /\ op.pc = "copy"
  /\ IF PathExists(op.source) /\ "copy" \notin op.faults
       THEN /\ ops_fs' = [ops_fs EXCEPT ![op.dest_path] = ops_fs[op.source]]
            /\ op' = [op EXCEPT
                        !.pc = "remove", !.via = "copy",
                        !.overwrote = ops_fs[op.dest_path] # Absent]
            /\ UNCHANGED logs
       ELSE /\ logs' = Append(logs, OperationLog("MOVE", op.source,
                                                 op.dest_path, FALSE))
            /\ op' = [op EXCEPT !.pc = "done", !.ret = "Error"]
            /\ UNCHANGED ops_fs
  /\ UNCHANGED << scan_vars, call, performed, app_vars >>

\* Mutant: the clean-up removes the source.
CleanedUpSource(source, dest_path) == source

\* `let _ = fs::remove_file(&dest_path);`
CleanedUp(source, dest_path) == dest_path

\* fs::remove_file(source) after the copy; when it fails the copy is
\* removed again.
MoveRemove ==
  /\ op.fn = "move_file"
  /\ op.pc = "remove"
  /\ LET ok == ops_fs[op.source] # Absent /\ "remove" \notin op.faults
     IN /\ ops_fs' = [ops_fs EXCEPT
                        ![IF ok THEN op.source
                          ELSE CleanedUp(op.source, op.dest_path)] = Absent]
        /\ logs' = Append(logs, OperationLog("MOVE", op.source,
                                             op.dest_path, ok))
        /\ op' = [op EXCEPT !.pc = "done",
                            !.ret = IF ok THEN "Success" ELSE "Error"]
  /\ UNCHANGED << scan_vars, call, performed, app_vars >>

\* Another process creates a file of the name move_file has settled on,
\* after the test of existence and before the rename.
OtherProcessCreates ==
  /\ op.fn = "move_file"
  /\ op.pc = "rename"
  /\ op.races > 0
  /\ op.dest_path # op.source
  /\ ops_fs[op.dest_path] = Absent
  /\ ops_fs' = [ops_fs EXCEPT ![op.dest_path] = "C"]
  /\ op' = [op EXCEPT !.races = @ - 1]
  /\ UNCHANGED << scan_vars, call, logs, performed, app_vars >>

\* clear_logs
ClearLogs ==
  /\ OpsIdle
  /\ logs # << >>
  /\ logs' = << >>
  /\ performed' = [performed EXCEPT !.cleared = performed.calls]
  /\ UNCHANGED << scan_vars, call, ops_fs, op, app_vars >>

MoveFile == CallMove \/ MoveCreateDir \/ MoveBuildPath \/ MoveRename
              \/ MoveCopy \/ MoveRemove

OpsInit ==
  /\ ScanAtRest
  /\ call = NoCall
  /\ ops_fs \in InitialFs
  /\ logs = << >>
  /\ op = NoOp
  /\ performed = NoneMade
  /\ AppAtRest

OpsNext == DeleteFile \/ MoveFile \/ ClearLogs \/ OtherProcessCreates

OpsSpec == OpsInit /\ [][OpsNext]_vars

\* ================================================================ claims

Returned == pc = "returned"

Groups == result.duplicate_groups

RECURSIVE SumDuplicates(_)
SumDuplicates(gs) ==
  IF gs = <<>> THEN 0 ELSE (Len(Head(gs).files) - 1) + SumDuplicates(Tail(gs))

RECURSIVE SumWasted(_)
SumWasted(gs) ==
  IF gs = <<>> THEN 0 ELSE Head(gs).wasted_size + SumWasted(Tail(gs))

\* C1: every returned ScanResult, of a completed or of a cancelled scan,
\* has total_duplicates equal to the sum over its groups of (member count
\* - 1) and wasted_space equal to the sum over its groups of wasted_size.
C1_TotalsAreSumsOverGroups ==
  Returned =>
    /\ result.total_duplicates = SumDuplicates(Groups)
    /\ result.wasted_space = SumWasted(Groups)

\* A completed scan that found two groups.
C1_Witness ==
  /\ Returned
  /\ outcome = "Completed"
  /\ Len(Groups) >= 2
  /\ result.total_duplicates >= 2

\* The files of the list handed to hash_files that were hashed
\* successfully, and those among them with digest d.
HashedOk == { i \in DOMAIN results : results[i].st = "ok" }

DigestClass(d) == { i \in HashedOk : results[i].hash = d }

\* How many of the entries es (a sequence) are the entry of path p.
CountPath(es, p) == Cardinality({ k \in DOMAIN es : es[k].path = p })

\* The members of group g are the files of DigestClass(d), each as often
\* as it was collected.
GroupIsClass(g, d) ==
  /\ Len(g.files) = Cardinality(DigestClass(d))
  /\ \A k \in DOMAIN g.files : g.files[k].hash = d
  /\ \A p \in Paths :
       CountPath(g.files, p) =
         Cardinality({ i \in DigestClass(d) : potential_duplicates[i].path = p })

\* C2: after an uncancelled scan the groups are exactly the digest classes
\* of two or more files among the files that were collected, survived the
\* size filter and were hashed successfully; a file whose digest no other
\* hashed file shares is in no group, whichever other files failed.
C2_GroupsAreDigestClasses ==
  (Returned /\ outcome = "Completed") =>
    /\ \A i \in HashedOk :
         LET d == results[i].hash
             gs == { k \in DOMAIN Groups : Groups[k].hash = d }
         IN IF Cardinality(DigestClass(d)) >= 2
              THEN /\ Cardinality(gs) = 1
                   /\ \A k \in gs : GroupIsClass(Groups[k], d)
              ELSE gs = {}
    /\ \A k \in DOMAIN Groups :
         \E i \in HashedOk : results[i].hash = Groups[k].hash

\* A completed scan with a group, a hashed file that has no peer, and a
\* file that failed to hash.
C2_Witness ==
  /\ Returned
  /\ outcome = "Completed"
  /\ Groups # <<>>
  /\ \E i \in DOMAIN results : results[i].st = "err"
  /\ \E i \in HashedOk : Cardinality(DigestClass(results[i].hash)) = 1

\* C3 (as claimed): in every group of every ScanResult all members have
\* the same recorded size s, total_size = s * member count and
\* wasted_size = total_size - one member's size = s * (member count - 1),
\* whatever happens to the files between collection and hashing.
C3_GroupMembersHaveOneSize ==
  Returned =>
    \A k \in DOMAIN Groups :
      LET g == Groups[k]
          s == g.files[1].size
          n == Len(g.files)
      IN /\ \A m \in DOMAIN g.files : g.files[m].size = s
         /\ g.total_size = s * n
         /\ g.wasted_size = g.total_size - s
         /\ g.wasted_size = s * (n - 1)

\* C4: no file whose size, as read by the collector, is strictly less than
\* min_size is a member of a group, and none is counted in total_files.
C4_NoFileBelowMinSize ==
  /\ \A k \in DOMAIN Groups : \A m \in DOMAIN Groups[k].files :
       /\ Groups[k].files[m].size >= config.min_size
       /\ \E v \in DOMAIN visited :
            /\ visited[v].path = Groups[k].files[m].path
            /\ visited[v].size = Groups[k].files[m].size
  /\ result.total_files <=
       Cardinality({ v \in DOMAIN visited : visited[v].size >= config.min_size })

\* A completed scan with min_size 2 that met a file of size 1 and found a
\* group.
C4_Witness ==
  /\ Returned
  /\ outcome = "Completed"
  /\ Groups # <<>>
  /\ \E v \in DOMAIN visited : visited[v].size < config.min_size

\* How many collected entries have the size of f.
SameSizeCount(f) == Cardinality({ k \in DOMAIN files : files[k].size = f.size })

\* C5: a file whose size is unique within the whole collected set is never
\* hashed and is in no group: compute_file_hash is called only on files of
\* size buckets with two or more members.
C5_UniqueSizeNeverHashed ==
  /\ \A f \in hash_calls : SameSizeCount(f) >= 2
  /\ \A i \in DOMAIN potential_duplicates :
       SameSizeCount(potential_duplicates[i]) >= 2
  /\ \A k \in DOMAIN Groups : \A m \in DOMAIN Groups[k].files :
       SameSizeCount(Groups[k].files[m]) >= 2

\* A completed scan over two roots that hashed files and left out a
\* collected file of unique size.
C5_Witness ==
  /\ Returned
  /\ outcome = "Completed"
  /\ Len(roots) = 2
  /\ hash_calls # {}
  /\ \E k \in DOMAIN files : SameSizeCount(files[k]) = 1

\* C6: once the cancellation flag is set no new unit of work starts: the
\* collector passes the flag check of no further entry, in this root or a
\* later one, and no worker passes the flag check of a further file; the
\* only work done afterwards is that of the units whose check had passed
\* when the flag was set (in flight): at most one entry and one file per
\* worker.
C6_NoNewUnitAfterCancel ==
  /\ [](/\ late \subseteq armed
        /\ Cardinality(armed) <= num_threads)
  /\ [][cancel_flag =>
          /\ (pc' = "visit" => pc = "visit")
          /\ (pc' = "walk" =>
                \/ walker' = <<>>
                \/ pc = "visit"
                \/ Head(walker) = WalkError /\ walker' = Tail(walker))
          /\ \A i \in DOMAIN results' :
               results'[i].st = "checked" =>
                 (i \in DOMAIN results /\ results[i].st = "checked")]_vars

\* A cancelled scan in which a hash in flight completed after the flag was
\* set and another file was abandoned.
C6_Witness ==
  /\ Returned
  /\ outcome = "Cancelled"
  /\ \E u \in late : u[1] = "file"
  /\ \E i \in DOMAIN results : results[i].st = "cancelled"

\* C7 (as claimed): a scan that returns because the flag was observed
\* returns total_files and total_size of the files collected before the
\* flag was observed, and errors holds every message recorded so far.
C7_CancelledTotalsAreCollected ==
  (Returned /\ outcome = "Cancelled") =>
    /\ result.total_files = Len(files)
    /\ result.total_size = SumSizes(files)
    /\ Range(result.errors) = err_log

\* The phase of a position of scan_directories_with_progress; each flag
\* check of the coordinator is counted with the phase that makes it: those of
\* the root loop and after it with Collecting, those before and after
\* hash_files with Hashing.
PhaseOf(p) ==
  CASE p \in {"request", "rejected", "idle"} -> "Idle"
    [] p \in {"reset_total", "next_root", "walk", "visit", "post_collect"}
         -> "Collecting"
    [] p = "size_filter" -> "SizeFiltering"
    [] p \in {"pre_hash", "store_total", "store_current", "hashing", "post_hash"}
         -> "Hashing"
    [] p = "group" -> "Grouping"
    [] OTHER -> "None"

Phase ==
  IF pc \in {"returned", "stored", "finished", "reset"}
    THEN outcome
    ELSE PhaseOf(pc)

PhaseRank(ph) ==
  CASE ph = "Idle" -> 0
    [] ph = "Collecting" -> 1
    [] ph = "SizeFiltering" -> 2
    [] ph = "Hashing" -> 3
    [] ph = "Grouping" -> 4
    [] OTHER -> 5

\* C8 (as claimed): the phases follow one another in the order Idle,
\* Collecting, SizeFiltering, Hashing, Grouping, Completed and never go
\* back; Cancelled is entered only from Collecting or from Hashing, and a
\* flag set at another moment (here: in SizeFiltering or Grouping) never
\* diverts the scan to Cancelled.
C8_CancelledOnlyFromCollectingOrHashing ==
  /\ [][pc \notin {"returned", "finished"} =>
          PhaseRank(Phase') >= PhaseRank(Phase)]_vars
  /\ [][(Phase' = "Cancelled" /\ Phase # "Cancelled") =>
          Phase \in {"Collecting", "Hashing"}]_vars
  /\ [](outcome = "Cancelled" =>
          PhaseOf(cancelled_at) \in {"Idle", "Collecting", "Hashing"})

PhaseEdges ==
  { << "Idle", "Collecting" >>, << "Collecting", "SizeFiltering" >>,
    << "SizeFiltering", "Hashing" >>, << "Hashing", "Grouping" >>,
    << "Grouping", "Completed" >>, << "Hashing", "Completed" >>,
    << "Collecting", "Cancelled" >>, << "Hashing", "Cancelled" >> }

\* C8 (amended): the phases follow one another in the order Idle,
\* Collecting, SizeFiltering, Hashing, Grouping, Completed, with Completed
\* entered at once when nothing is left to hash; Cancelled is entered only
\* from Collecting or from Hashing; a flag set before the call, in
\* Collecting, in SizeFiltering or in Hashing diverts the scan to Cancelled
\* unless it is set after collection with nothing left to hash, and only a
\* flag set during Grouping never does.
C8_PhaseOrder ==
  /\ [][(pc \notin {"returned", "finished"} /\ Phase' # Phase) =>
          << Phase, Phase' >> \in PhaseEdges]_vars
  /\ []((Returned /\ cancel_flag /\ cancelled_at # "returned") =>
          LET at == PhaseOf(cancelled_at)
              after_collection == cancelled_at \in {"size_filter", "pre_hash"}
          IN IF outcome = "Cancelled"
               THEN /\ at \in {"Idle", "Collecting", "SizeFiltering", "Hashing"}
                    /\ after_collection => potential_duplicates # <<>>
               ELSE \/ at = "Grouping"
                    \/ after_collection /\ potential_duplicates = <<>>)

\* A scan cancelled by the check before hashing, the flag having been set
\* while the size buckets were built.
C8_Witness ==
  /\ Returned
  /\ outcome = "Cancelled"
  /\ returned_from = "pre_hash"
  /\ cancelled_at = "size_filter"

\* C9: every scan invocation (every request but the one rejected for
\* having no folder) eventually returns a ScanResult, Completed or
\* Cancelled and nothing else, whatever entries fail to be read or hashed
\* and whenever the flag is set.
C9_ScanReturns ==
  /\ <>(pc = "rejected" \/ (Returned /\ outcome \in {"Completed", "Cancelled"}))
  /\ [](Returned => outcome \in {"Completed", "Cancelled"})

\* A completed scan one of whose files failed to hash.
C9_Witness ==
  /\ Returned
  /\ outcome = "Completed"
  /\ \E k \in DOMAIN result.errors : result.errors[k][1] = "Failed to hash"

\* C10: from the reset at the start of the call until it returns, and
\* whatever the counters held before, progress_current <= progress_total;
\* progress_current never decreases while the hashing phase runs.
C10_ProcessedAtMostTotal ==
  /\ [](pc \notin {"request", "rejected", "idle"} =>
          progress_current <= progress_total)
  /\ [][(Phase = "Hashing" /\ Phase' \in {"Hashing", "Cancelled", "Grouping"}) =>
          progress_current' >= progress_current]_vars

\* A scan cancelled during hashing with some, not all, files hashed.
C10_Witness ==
  /\ Returned
  /\ outcome = "Cancelled"
  /\ returned_from = "post_hash"
  /\ 0 < progress_current
  /\ progress_current < progress_total

\* hash_files has returned.
AfterHashing ==
  \/ pc \in {"post_hash", "group"}
  \/ pc = "returned" /\ returned_from \in {"post_hash", "group"}

\* The messages of hashing failures in the result.
HashFailures ==
  { k \in DOMAIN result.errors : result.errors[k][1] = "Failed to hash" }

\* The files whose map closure has returned Ok.
OkCount(rs) == Cardinality({ i \in DOMAIN rs : rs[i].st = "ok" })

\* C11: progress_current is incremented by exactly one for each file hashed
\* successfully and by nothing else: when hash_files has returned it equals
\* the number of records of the hashed set, and for an uncancelled scan it
\* plus the number of hashing failures equals progress_total.
C11_ProcessedCountsHashedFiles ==
  /\ [](AfterHashing => progress_current = Len(hashed_files))
  /\ []((pc = "returned" /\ returned_from = "group") =>
          progress_current + Cardinality(HashFailures) = progress_total)
  /\ [][(pc = "hashing" /\ progress_current' # progress_current) =>
          /\ progress_current' = progress_current + 1
          /\ OkCount(results') = OkCount(results) + 1]_vars
  /\ [][(pc = "hashing" /\ pc' = "hashing" /\ OkCount(results') # OkCount(results))
          => progress_current' = progress_current + 1]_vars

\* A completed scan that hashed two files and failed on a third.
C11_Witness ==
  /\ pc = "returned"
  /\ returned_from = "group"
  /\ HashFailures # {}
  /\ progress_current >= 2

\* The collected entries whose size another collected entry shares.
SharedSizeCount ==
  Cardinality({ k \in DOMAIN files : SameSizeCount(files[k]) >= 2 })

\* progress_total holds its hashing value.
TotalIsSet ==
  \/ pc \in {"store_current", "hashing", "post_hash", "group"}
  \/ pc = "returned" /\ returned_from \in {"post_hash", "group"}

\* C12: within one scan progress_total is assigned its hashing value once,
\* before any file hash starts; the value is the number of files in size
\* buckets of two or more members, and it does not change until the scan
\* returns.
C12_TotalSetOnceBeforeHashing ==
  /\ [](TotalIsSet => progress_total = SharedSizeCount)
  /\ []((hash_calls # {} \/ pc = "hashing") =>
          (TotalIsSet \/ pc \in {"stored", "finished", "reset"}))
  /\ [][(pc \notin {"request", "returned", "finished"}
            /\ progress_total' # progress_total) =>
          pc \in {"reset_total", "store_total"}]_vars
  /\ [][(TotalIsSet /\ pc # "returned") =>
          progress_total' = progress_total]_vars

\* A completed scan that hashed some of the collected files and left out
\* one of unique size.
C12_Witness ==
  /\ pc = "returned"
  /\ returned_from = "group"
  /\ hash_calls # {}
  /\ 0 < progress_total
  /\ progress_total < Len(files)

\* The call is past its two resets and has not returned.
Running ==
  pc \notin {"request", "rejected", "idle", "reset_total", "returned", "stored",
            "finished", "reset"}

\* The positions of collection and of the size filter, up to the store
\* that begins hashing.
BeforeHashing ==
  pc \in {"next_root", "walk", "visit", "post_collect", "size_filter",
          "pre_hash", "store_total"}

\* C13: while a scan runs, from its reset on and whatever the counters held
\* before, progress_total is 0 in every state of collection and of the size
\* filter, and progress_total = 0 is seen only there: once hashing has
\* begun it is positive, so 0 means 'still collecting or filtering'.
C13_TotalZeroBeforeHashing ==
  Running => (progress_total = 0 <=> BeforeHashing)

\* A running scan at the end of its size filter with collected files and
\* nothing to hash: progress_total is 0.
C13_Witness ==
  /\ pc = "pre_hash"
  /\ files # <<>>
  /\ potential_duplicates = <<>>
  /\ progress_total = 0

\* How often path p is a member of a group.
Memberships(p) ==
  LET Count(g) == Cardinality({ m \in DOMAIN g.files : g.files[m].path = p })
      F[k \in 0..Len(Groups)] ==
        IF k = 0 THEN 0 ELSE F[k - 1] + Count(Groups[k])
  IN F[Len(Groups)]

\* How often path p was hashed successfully.
OkEntries(p) ==
  Cardinality({ i \in HashedOk : potential_duplicates[i].path = p })

\* C14: no record of the hashed set and no group member is without a
\* digest, every member's digest is its group's hash, and an entry whose
\* hashing failed is a member of no group: a path is a member as often as
\* it was hashed successfully, at most.
C14_NoMemberWithoutDigest ==
  /\ \A k \in DOMAIN hashed_files : hashed_files[k].hash # NoHash
  /\ \A k \in DOMAIN Groups : \A m \in DOMAIN Groups[k].files :
       /\ Groups[k].files[m].hash # NoHash
       /\ Groups[k].files[m].hash = Groups[k].hash
  /\ Returned => \A p \in Paths : Memberships(p) <= OkEntries(p)

\* A completed scan with a group and a file that failed to hash, whose
\* recorded size is that of the group's members.
C14_Witness ==
  /\ pc = "returned"
  /\ returned_from = "group"
  /\ \E i \in DOMAIN results, k \in DOMAIN Groups :
       /\ results[i].st = "err"
       /\ potential_duplicates[i].size = Groups[k].files[1].size
       /\ Memberships(potential_duplicates[i].path) = 0

\* The messages of result.errors that are not traversal messages.
HashingMessages ==
  { k \in DOMAIN result.errors : result.errors[k][1] # "Failed to read" }

\* C15: cancellation is not an error: after hashing, errors holds exactly
\* one message for each file whose hash attempt failed, naming it, and no
\* message for a file skipped because the flag was set.
C15_CancellationIsNotAnError ==
  AfterHashing =>
    /\ \A k \in HashingMessages : result.errors[k][1] = "Failed to hash"
    /\ \A p \in Paths :
         Cardinality({ k \in HashingMessages : result.errors[k][2] = p }) =
           Cardinality({ i \in DOMAIN results :
                           /\ results[i].st = "err"
                           /\ potential_duplicates[i].path = p })

\* A scan cancelled during hashing in which one file failed to hash and
\* another was skipped.
C15_Witness ==
  /\ pc = "returned"
  /\ returned_from = "post_hash"
  /\ \E i \in DOMAIN results : results[i].st = "err"
  /\ \E i \in DOMAIN results : results[i].st = "cancelled"
  /\ Cardinality(HashingMessages) = 1

\* C16 (as claimed): every per-entry I/O failure met during traversal (a
\* directory or entry that cannot be read, a file that disappears after it
\* was listed) adds a message to ScanResult.errors, and traversal goes on
\* with the remaining entries.
C16_TraversalFailuresAreRecorded ==
  /\ [](io_failures \subseteq Range(result.errors))
  /\ [][io_failures' # io_failures =>
          /\ walker' = Tail(walker)
          /\ pc' = "walk"]_vars

\* Path p was found larger than MAX_FILE_SIZE by the collector.
OversizeAtCollection(p) ==
  \E v \in DOMAIN visited :
    visited[v].path = p /\ visited[v].size > MAX_FILE_SIZE

\* Path p was collected within the ceiling and found larger than
\* MAX_FILE_SIZE by compute_file_hash.
OversizeAtHashing(p) ==
  \E i \in DOMAIN results :
    /\ potential_duplicates[i].path = p
    /\ results[i].st = "err"
    /\ disk[p].size > MAX_FILE_SIZE

\* C17 (as claimed): a file larger than MAX_FILE_SIZE, whether the
\* collector or compute_file_hash sees the excess, is in no group and a
\* message naming it is in ScanResult.errors.
C17_OversizeIsReported ==
  (pc = "returned" /\ returned_from \in {"pre_hash", "group"}) =>
    \A p \in Paths :
      (OversizeAtCollection(p) \/ OversizeAtHashing(p)) =>
        /\ Memberships(p) = 0
        /\ \E k \in DOMAIN result.errors : result.errors[k][2] = p

\* C18: a scan request with no root directory is rejected before the scan
\* starts and is answered at once, through the status message and not
\* through a ScanResult: no phase is entered, the progress counters and the
\* flag are not touched, no result is produced and nothing happens
\* afterwards.
C18_EmptyRequestIsRejected ==
  /\ [][(pc = "request" /\ roots = <<>>) =>
          /\ pc' = "rejected"
          /\ status_message' = NoFolderMessage
          /\ UNCHANGED << progress_current, progress_total, cancel_flag,
                          result, outcome >>]_vars
  /\ [][pc # "rejected"]_vars
  /\ [](pc = "rejected" =>
          /\ roots = <<>>
          /\ Phase = "Idle"
          /\ outcome = "none"
          /\ result = DefaultScanResult)
  /\ [](status_message = NoFolderMessage => pc = "rejected")

\* A rejected request; the counters still hold what an earlier scan left.
C18_Witness ==
  /\ pc = "rejected"
  /\ status_message = NoFolderMessage
  /\ progress_current = 1
  /\ progress_total = 2

\* Where group_by_hash first meets the digest of group g: the place of its
\* first member in the list of hashed files.
DiscoveredAt(g) ==
  CHOOSE k \in DOMAIN hashed_files :
    /\ hashed_files[k].hash = g.hash
    /\ \A j \in 1..(k - 1) : hashed_files[j].hash # g.hash

\* C19 (as claimed): in the result of a completed scan the groups are in
\* order of non-increasing wasted_size, and groups of equal wasted_size are
\* in the order in which they were discovered.
C19_SortedWithStableTies ==
  (pc = "returned" /\ returned_from = "group") =>
    \A i, j \in DOMAIN Groups :
      i < j =>
        /\ Groups[i].wasted_size >= Groups[j].wasted_size
        /\ Groups[i].wasted_size = Groups[j].wasted_size =>
             DiscoveredAt(Groups[i]) < DiscoveredAt(Groups[j])

\* The groups of a ScanResult as sets of member paths.
MemberSets(r) ==
  { { g.files[m].path : m \in DOMAIN g.files } : g \in Range(r.duplicate_groups) }

\* C20 (as claimed): scanning the same roots twice with the same
\* configuration on an unmodified tree, without cancellation, yields the
\* same groups with the same members, the same total_duplicates and
\* wasted_space, and the same sequence of groups.
C20_RepeatedScanGivesSameResult ==
  (pc = "returned" /\ first_result # <<>>) =>
    LET first == first_result[1] IN
      /\ MemberSets(result) = MemberSets(first)
      /\ result.total_duplicates = first.total_duplicates
      /\ result.wasted_space = first.wasted_space
      /\ result.duplicate_groups = first.duplicate_groups

\* The entries whose metadata the collector read and whose size passed the
\* min_size and ceiling tests, over all roots, in the order read.
AcceptedVisits ==
  SelectSeq(visited, LAMBDA v : v.size >= config.min_size /\ v.size <= MAX_FILE_SIZE)

\* C21: for a completed scan total_files is the number of all collected
\* files that passed the min_size and ceiling tests, across all roots, and
\* total_size the sum of their recorded sizes; files dropped by the size
\* prefilter and files whose hashing failed are counted.
C21_TotalsCountEveryCollectedFile ==
  (Returned /\ outcome = "Completed") =>
    /\ result.total_files = Len(AcceptedVisits)
    /\ result.total_size = SumSizes(AcceptedVisits)
    /\ result.total_files = Len(files)

\* A completed scan that dropped a collected file of unique size before
\* hashing and failed to hash another.
C21_Witness ==
  /\ pc = "returned"
  /\ returned_from = "group"
  /\ Len(potential_duplicates) < Len(files)
  /\ \E i \in DOMAIN results : results[i].st = "err"
  /\ result.total_files > Len(hashed_files) + 1

\* The directories the walker of the root list goes through.
WalkedDirs ==
  { d \in {"top", "sub"} :
      \E k \in DOMAIN roots :
        d = roots[k] \/ (roots[k] = "top" /\ config.recursive) }

\* C22 (as claimed): the collector follows no symbolic link: no collected
\* entry lies in a directory reached only through a symlinked directory,
\* and no collected entry is itself a symbolic link.
C22_NoSymlinkIsCollected ==
  \A k \in DOMAIN files :
    /\ files[k].path \notin {FileLink, DirLink}
    /\ files[k].path \in Paths => DirOf(files[k].path) \in WalkedDirs

\* C30 (as claimed): in every ScanResult, for any list of roots, one given
\* twice or one nested in another included, the members of each group are
\* pairwise distinct paths and no path is in more than one group or more
\* than once in a group.
C30_NoPathTwiceInGroups ==
  Returned => \A p \in Paths \cup {FileLink} : Memberships(p) <= 1

\* The entries of the list handed to hash_files that were hashed to
\* digest d, in list order.
ListedClass(d) ==
  LET idx == SelectSeq(Indices(results),
                       LAMBDA i : results[i].st = "ok" /\ results[i].hash = d)
  IN [k \in DOMAIN idx |-> [potential_duplicates[idx[k]] EXCEPT !.hash = d]]

C24_AtMostEightHashedAtOnce ==
  Cardinality(InFlight) <= MAX_PARALLEL_THREADS

\* C27: a scan leaves the filesystem unchanged: in every phase, and when it
\* completes or is cancelled, no step of the scan creates, removes, renames
\* or writes a file; the only changes of the tree are those other
\* processes make, each counted against mods.
C27_ScanLeavesDiskUnchanged ==
  /\ [][mods' >= mods => disk' = disk]_vars
  /\ [][DOMAIN disk' = DOMAIN disk]_vars
  /\ [](mods = MaxMods =>
          \A p \in Paths : p = 1 \/ p > NumPaths => disk[p] = ContentX)

\* A completed scan that read metadata and content and found a group, with
\* no change of the tree by anybody.
C27_Witness ==
  /\ pc = "returned"
  /\ returned_from = "group"
  /\ mods = MaxMods
  /\ hash_calls # {}
  /\ Groups # <<>>

\* C26: the result of a scan for which cancellation was requested is never
\* consumed by the host: from cancel_scan on, whether the thread finishes
\* before or after the request, scan_result stays None although the
\* thread stores its ScanResult in the ScanState and sets is_complete.
C26_CancelledResultNeverConsumed ==
  /\ [](cancel_flag => scan_result = <<>>)
  /\ [][cancel_flag' => scan_result' = scan_result]_vars

\* The thread had stored a result with duplicate groups and set
\* is_complete when the Cancel button was pressed; the result stays in the
\* ScanState.
C26_Witness ==
  /\ scan_handle
  /\ cancel_flag
  /\ cancelled_at = "finished"
  /\ is_complete
  /\ state_result # <<>>
  /\ state_result[1].duplicate_groups # <<>>
  /\ scan_result = <<>>
  /\ status_message = CancelledMessage

AtLeastRelease == {"Release", "AcqRel", "SeqCst"}

AtLeastAcquire == {"Acquire", "AcqRel", "SeqCst"}

\* C25: every write of progress_current, progress_total and cancel_flag
\* uses at least release ordering, every read of them at least acquire
\* ordering (a read-modify-write both), in the scan and in the host that
\* polls them; none of the accesses made so far is a Relaxed one.
C25_AccessesAreOrdered ==
  \A a \in orderings :
    /\ a[1] \in {"store", "rmw"} => a[2] \in AtLeastRelease
    /\ a[1] \in {"load", "rmw"} => a[2] \in AtLeastAcquire

\* The name stem_N.ext of the claim, of the stem and the extension the
\* path has (stem_N when it has no extension).
Numbered(path, n) == NewName(file_stem(path), Dec(n), extension(path))

\* C28: generate_unique_path(p) returns stem_N.ext (stem_N when p has no
\* extension) for the smallest N of 1..10000 for which that name does not
\* exist in the directory of p, stem_1.ext when that one is free, and the
\* name returned never exists.
C28_SmallestFreeNumber ==
  (call.fn = "generate_unique_path" /\ call.returned) =>
    LET free(n) == ~Exists(call.dir, Numbered(call.path, n))
    IN /\ (\E n \in 1..SafetyLimit : free(n)) =>
            \E n \in 1..SafetyLimit :
              /\ free(n)
              /\ \A m \in 1..(n - 1) : ~free(m)
              /\ call.ret = Numbered(call.path, n)
       /\ ~Exists(call.dir, call.ret)

\* The value printed differs from bytes / unit by at most half a
\* hundredth: (2h - 1) * unit <= 200 * bytes <= (2h + 1) * unit, with
\* 200 * bytes kept as A * MB + B.
WithinHalfHundredth(h, bytes, unit) ==
  LET A == 200 * (bytes \div MB) + (200 * (bytes % MB)) \div MB
      B == (200 * (bytes % MB)) % MB
      scale == unit \div KB
      \* (2h + d) * unit - 200 * bytes, in units of MB and of bytes
      over(d) == IF unit = KB THEN (2 * h + d) * KB - 200 * bytes
                 ELSE ((2 * h + d) * (scale \div KB) - A) * MB - B
  IN /\ h >= 0
     /\ h <= 400 * KB
     /\ IF unit = KB THEN bytes < MB
        ELSE (2 * h + 1) * (scale \div KB) - A \in -2047..2047
     /\ over(-1) <= 0
     /\ over(1) >= 0

\* format_size of the five sizes of test_format_size.
TestVectors ==
  << << 500, Plain(500) >>, << 1024, Decimal(100, "KB") >>,
     << 1536, Decimal(150, "KB") >>, << 1048576, Decimal(100, "MB") >>,
     << 1073741824, Decimal(100, "GB") >> >>

\* C29: format_size(bytes) selects the unit by thresholds of base 1024:
\* the exact integer and "bytes" below 1024, KB from 1024, MB from 1024^2,
\* GB from 1024^3, the value being bytes divided by the unit with two
\* decimals; the five sizes of the test are printed as the test says.
C29_UnitsByBase1024 ==
  (call.fn = "format_size" /\ call.returned) =>
    LET b == call.bytes
        r == call.ret
        h == 100 * r.int + r.frac
    IN /\ r.unit = (IF b < 1024 THEN "bytes"
                    ELSE IF b < 1024 * 1024 THEN "KB"
                    ELSE IF b < 1024 * 1024 * 1024 THEN "MB"
                    ELSE "GB")
       /\ r.unit = "bytes" => r.int = b /\ r.frac = -1
       /\ r.unit # "bytes" =>
            /\ r.frac \in 0..99
            /\ WithinHalfHundredth(h, b, CASE r.unit = "KB" -> KB
                                           [] r.unit = "MB" -> MB
                                           [] r.unit = "GB" -> GB)
       /\ \A i \in DOMAIN TestVectors :
            TestVectors[i][1] = b => r = TestVectors[i][2]

\* format_size has returned "1024.00 KB" for 1048575, the last size below
\* the MB threshold.
C29_Witness ==
  /\ call.fn = "format_size"
  /\ call.returned
  /\ call.bytes = MB - 1
  /\ call.ret = Decimal(102400, "KB")

\* A call of move_file has returned.
Moved == op.fn = "move_file" /\ op.pc = "done"

\* C31: move_file never overwrites an existing file: nothing that exists
\* is replaced by the rename or the copy, and when the destination
\* directory holds an entry of the source's file name the source goes to
\* another name, which did not exist, and the entry stays as it was.
C31_MoveNeverOverwrites ==
  Moved =>
    /\ ~op.overwrote
    /\ LET same == << op.dest_dir, op.source[2] >>
       IN (op.dest_dir # Uncreatable /\ same # op.source
             /\ op.pre[same] # Absent) =>
            /\ ops_fs[same] = op.pre[same]
            /\ op.ret = "Success" =>
                 (op.dest_path # same /\ op.pre[op.dest_path] = Absent)

\* C32 (as claimed): whenever move_file returns Error the source file
\* exists at its path, and whenever it returns Success the source path no
\* longer exists and the destination holds the content.
C32_ErrorLeavesSourceInPlace ==
  Moved =>
    /\ op.ret = "Error" => PathExists(op.source)
    /\ op.ret = "Success" =>
         (ops_fs[op.source] = Absent /\ ops_fs[op.dest_path] = op.pre[op.source])

\* C32 (amended): whenever move_file returns Error the source path names
\* what it named when move_file was called (a source that did not exist
\* then gives Error), and whenever it returns Success the source existed,
\* its path no longer exists and the destination holds the content.
C32_MoveKeepsTheFile ==
  Moved =>
    /\ op.ret = "Error" => ops_fs[op.source] = op.pre[op.source]
    /\ op.ret = "Success" =>
         /\ op.pre[op.source] \in FileContents
         /\ ops_fs[op.source] = Absent
         /\ ops_fs[op.dest_path] = op.pre[op.source]

\* The copy succeeded and the source could not be removed: Error, the
\* copy is gone again and the source is in place.
C32_Witness ==
  /\ Moved
  /\ op.ret = "Error"
  /\ op.via = "copy"
  /\ ops_fs[op.source] = "A"
  /\ ops_fs[op.dest_path] = Absent
  /\ logs # << >>
  /\ ~logs[Len(logs)].success

\* C33: every call of delete_file or move_file appends exactly one
\* OperationLog entry, whose success flag is true exactly when the call
\* returned Success; between two calls the length of the log is the
\* number of calls made since the last clear_logs.
C33_OneLogEntryPerCall ==
  OpsIdle =>
    /\ Len(logs) = SinceCleared
    /\ (op.pc = "done" /\ SinceCleared > 0) =>
         /\ logs # << >>
         /\ logs[Len(logs)].source = op.source
         /\ logs[Len(logs)].success = (op.ret = "Success")

\* ------------------------------------------------------------ the window
\* src/src/app.rs: FileXSorterApp as the clicks in its window and the
\* threads start_scan spawns change it.  A behaviour of AppSpec is a
\* sequence of frames of update(), one click each, interleaved with the
\* steps of the threads.  The scan itself is one step of a thread here:
\* what it returns is one of a few results.

\* How many times start_scan spawns a thread in one behaviour.
MaxScans == 3

\* The folders the folder dialog offers.
Folders == {"folder"}

\* The duplicate groups a scan may find, as the number of files of each
\* group; a scan after a deletion finds other groups than the one before.
GroupSizes == {<< >>, << 2 >>, << 2, 2 >>}

\* A ScanResult; scan names the call of start_scan whose thread made it.
ScanResult(scan, groups) == [scan |-> scan, duplicate_groups |-> groups]

\* The (group_idx, file_idx) pairs of the checkboxes render_duplicate_group
\* draws for a result, counted from 0 as enumerate() counts.
Checkboxes(shown) ==
  {gf \in (0..1) \X (0..1) :
     /\ gf[1] < Len(shown.duplicate_groups)
     /\ gf[2] < shown.duplicate_groups[gf[1] + 1]}

\* The pairs "Select All Duplicates" pushes: every file but the first of
\* each group.
AllDuplicates(shown) == {gf \in Checkboxes(shown) : gf[2] >= 1}

\* ScanState::new() with the thread spawned for it.
NewScanState ==
  [cancel_flag |-> FALSE, is_complete |-> FALSE, result |-> << >>,
   thread |-> "scanning", returned |-> << >>]

\* The ScanState self.scan_state points to; start_scan makes a new one for
\* every thread.
Newest == Len(scan_states)

\* Mutant: check_scan_complete reads the first ScanState whose thread has
\* finished.
ScanStateReadOldest(a) ==
  IF \E g \in 1..Len(scan_states) : scan_states[g].is_complete
    THEN CHOOSE g \in 1..Len(scan_states) :
           /\ scan_states[g].is_complete
           /\ \A h \in 1..(g - 1) : ~scan_states[h].is_complete
    ELSE a.scan_state

\* self.scan_state, as check_scan_complete and cancel_scan read it.
ScanStateRead(a) == a.scan_state

\* Mutant: start_scan keeps the selection.
ClearedKept(selected) == selected

\* selected_files.clear()
Cleared(selected) == {}

\* The fields start_scan sets when there is a folder.
Started(a) ==
  [a EXCEPT !.is_scanning = TRUE,
            !.scan_result = << >>,
            !.selected_files = Cleared(a.selected_files),
            !.scan_state = Newest + 1,
            !.status_message = ScanningMessage]

\* start_scan, called by the scan button and by the confirmation dialog.
start_scan(a) ==
  IF a.selected_folders = {}
    THEN /\ app' = [a EXCEPT !.status_message = NoFolderMessage]
         /\ UNCHANGED scan_states
    ELSE /\ Newest < MaxScans
         /\ app' = Started(a)
         /\ scan_states' = Append(scan_states, NewScanState)

\* "Add Folder"
AddFolder ==
  /\ ~app.is_scanning
  /\ \E folder \in Folders \ app.selected_folders :
       app' = [app EXCEPT !.selected_folders = @ \cup {folder}]
  /\ UNCHANGED << scan_states, scan_vars, call, ops_vars >>

\* The "X" of a folder
RemoveFolder ==
  /\ ~app.is_scanning
  /\ \E folder \in app.selected_folders :
       app' = [app EXCEPT !.selected_folders = @ \ {folder}]
  /\ UNCHANGED << scan_states, scan_vars, call, ops_vars >>

\* "Clear All": enabled when there is a folder, during a scan as well.
ClearAll ==
  /\ app.selected_folders # {}
  /\ app' = [app EXCEPT !.selected_folders = {},
                        !.scan_result = << >>,
                        !.selected_files = Cleared(app.selected_files)]
  /\ UNCHANGED << scan_states, scan_vars, call, ops_vars >>

\* "Scan for Duplicates", drawn when no scan is in progress.
ScanButton ==
  /\ ~app.is_scanning
  /\ start_scan(app)
  /\ UNCHANGED << scan_vars, call, ops_vars >>

\* cancel_scan, by the "Cancel" drawn while a scan is in progress.
cancel_scan ==
  /\ app.is_scanning
  /\ scan_states' =
       [scan_states EXCEPT ![ScanStateRead(app)].cancel_flag = TRUE]
  /\ app' = [app EXCEPT !.is_scanning = FALSE,
                        !.status_message = CancelledMessage]
  /\ UNCHANGED << scan_vars, call, ops_vars >>

\* check_scan_complete, at the start of every frame.
check_scan_complete ==
  /\ app.is_scanning
  /\ LET current == ScanStateRead(app)
         taken == scan_states[current].result
     IN /\ scan_states[current].is_complete
        /\ scan_states' = [scan_states EXCEPT ![current].result = << >>]
        /\ app' = [app EXCEPT
                     !.is_scanning = FALSE,
                     !.scan_result = taken,
                     !.status_message =
                       IF taken = << >> THEN @
                       ELSE IF taken[1].duplicate_groups = << >>
                         THEN NoDuplicatesMessage
                         ELSE FoundMessage]
  /\ UNCHANGED << scan_vars, call, ops_vars >>

\* A checkbox of render_duplicate_group changed.
Checkbox ==
  /\ app.scan_result # << >>
  /\ \E gf \in Checkboxes(app.scan_result[1]) :
       app' = [app EXCEPT !.selected_files =
                 IF gf \in @ THEN @ \ {gf} ELSE @ \cup {gf}]
  /\ UNCHANGED << scan_states, scan_vars, call, ops_vars >>

\* "Select All Duplicates"
SelectAllDuplicates ==
  /\ app.scan_result # << >>
  /\ app' = [app EXCEPT !.selected_files = AllDuplicates(app.scan_result[1])]
  /\ UNCHANGED << scan_states, scan_vars, call, ops_vars >>

\* "Clear Selection"
ClearSelection ==
  /\ app.scan_result # << >>
  /\ app' = [app EXCEPT !.selected_files = {}]
  /\ UNCHANGED << scan_states, scan_vars, call, ops_vars >>

\* "Delete (n)" and "Move (n)" of the results: the dialog is asked for.
AskConfirmation ==
  /\ app.scan_result # << >>
  /\ app.selected_files # {}
  /\ \E dialog \in {"DeleteFiles", "MoveFiles"} :
       app' = [app EXCEPT !.show_confirmation_dialog = dialog]
  /\ UNCHANGED << scan_states, scan_vars, call, ops_vars >>

\* "Delete" or "Move" of the confirmation dialog, a window drawn in every
\* frame in which show_confirmation_dialog is Some: the files are deleted
\* or moved, and the folders are scanned again.
Confirm ==
  /\ app.show_confirmation_dialog # "none"
  /\ LET done == [app EXCEPT !.status_message = OperationMessage,
                             !.selected_files = {},
                             !.show_confirmation_dialog = "none"]
     IN IF done.selected_folders # {}
          THEN start_scan(done)
          ELSE app' = done /\ UNCHANGED scan_states
  /\ UNCHANGED << scan_vars, call, ops_vars >>

\* "Cancel" of the confirmation dialog
Dismiss ==
  /\ app.show_confirmation_dialog # "none"
  /\ app' = [app EXCEPT !.show_confirmation_dialog = "none"]
  /\ UNCHANGED << scan_states, scan_vars, call, ops_vars >>

\* The thread's scan_directories_with_progress returns.
ThreadScans(g) ==
  /\ scan_states[g].thread = "scanning"
  /\ \E groups \in GroupSizes :
       scan_states' =
         [scan_states EXCEPT ![g].thread = "returned",
                             ![g].returned = << ScanResult(g, groups) >>]
  /\ UNCHANGED << app, scan_vars, call, ops_vars >>

\* *guard = Some(result), in the thread's own ScanState
ThreadStores(g) ==
  /\ scan_states[g].thread = "returned"
  /\ scan_states' =
       [scan_states EXCEPT ![g].thread = "stored",
                           ![g].result = scan_states[g].returned,
                           ![g].returned = << >>]
  /\ UNCHANGED << app, scan_vars, call, ops_vars >>

\* scan_state.is_complete.store(true), the thread's last statement
ThreadCompletes(g) ==
  /\ scan_states[g].thread = "stored"
  /\ scan_states' = [scan_states EXCEPT ![g].thread = "ended",
                                        ![g].is_complete = TRUE]
  /\ UNCHANGED << app, scan_vars, call, ops_vars >>

\* The steps of the threads.
Threads ==
  \E g \in 1..Len(scan_states) :
    ThreadScans(g) \/ ThreadStores(g) \/ ThreadCompletes(g)

\* The clicks in a frame.
Clicks ==
  \/ AddFolder
  \/ RemoveFolder
  \/ ClearAll
  \/ ScanButton
  \/ cancel_scan
  \/ Checkbox
  \/ SelectAllDuplicates
  \/ ClearSelection
  \/ AskConfirmation
  \/ Confirm
  \/ Dismiss

\* No scan of the scan model, no call of a function, no file operation.
AppInit ==
  /\ ScanAtRest
  /\ call = NoCall
  /\ OpsAtRest
  /\ AppAtRest

AppNext == Clicks \/ check_scan_complete \/ Threads

AppSpec == AppInit /\ [][AppNext]_vars

\* The threads are scheduled, and update() runs frame after frame.
AppFairSpec ==
  /\ AppSpec
  /\ WF_vars(Threads)
  /\ WF_vars(check_scan_complete)

\* C34: at any time at most one thread that has not been asked to cancel
\* is running, and start_scan never spawns a thread while an earlier scan
\* that was not cancelled is in progress.
Uncancelled ==
  {g \in 1..Len(scan_states) :
     scan_states[g].thread # "ended" /\ ~scan_states[g].cancel_flag}

C34_OneUncancelledThread == Cardinality(Uncancelled) <= 1

\* The result of the g-th start_scan is displayed.
Delivered(g) ==
  /\ ~app.is_scanning
  /\ app.scan_result # << >>
  /\ app.scan_result[1].scan = g

\* C35: every scan started by start_scan and not cancelled is eventually
\* delivered (is_scanning is false and scan_result holds that scan's
\* ScanResult), and a thread sets is_complete only after it has stored its
\* result.
C35_EveryScanDelivered ==
  /\ \A g \in 1..MaxScans :
       <>(Len(scan_states) >= g) =>
         <>(Len(scan_states) >= g
              /\ (scan_states[g].cancel_flag \/ Delivered(g)))
  /\ [][\A g \in 1..Len(scan_states) :
          (scan_states'[g].is_complete /\ ~scan_states[g].is_complete) =>
            scan_states[g].result # << >>]_vars

\* C36: scan_result is only ever set from the ScanState of the most
\* recently started scan: whatever is displayed was made by the thread of
\* the last start_scan, never by a thread a later start_scan superseded.
C36_OnlyNewestDisplayed ==
  app.scan_result # << >> =>
    /\ app.scan_result[1].scan = Newest
    /\ app.scan_state = Newest

\* A superseded thread has stored its result and set is_complete, and the
\* result of the scan started after it is displayed.
C36_Witness ==
  /\ app.scan_result # << >>
  /\ \E g \in 1..(Newest - 1) :
       /\ scan_states[g].is_complete
       /\ scan_states[g].result # << >>
       /\ scan_states[g].result[1].duplicate_groups
            # app.scan_result[1].duplicate_groups

\* C37: every (group_index, file_index) pair of selected_files is a member
\* of a group of the current scan_result, and selected_files is empty
\* whenever scan_result is None.
C37_SelectionWithinResult ==
  /\ app.scan_result = << >> => app.selected_files = {}
  /\ app.scan_result # << >> =>
       app.selected_files \subseteq Checkboxes(app.scan_result[1])

\* The result of the first scan was taken, the second scan found one
\* group, and the second file of it is selected.
C37_Witness ==
  /\ Newest >= 2
  /\ scan_states[1].result = << >>
  /\ scan_states[1].is_complete
  /\ app.scan_result # << >>
  /\ app.scan_result[1].scan = 2
  /\ app.scan_result[1].duplicate_groups = << 2 >>
  /\ app.selected_files = {<< 0, 1 >>}

\* C38: the Scanner's own flag is sticky.  A call of scan_directory or
\* scan_directories begun after cancel() returns the default ScanResult
\* and visits no entry; no step of a call clears the flag, only reset()
\* does; and after reset() the flag is false and both counters are 0.
C38_FlagStaysSetUntilReset ==
  /\ []((~scan_handle /\ pc = "returned" /\ cancelled_at = "idle") =>
          /\ outcome = "Cancelled"
          /\ result = DefaultScanResult
          /\ visited = <<>>
          /\ hash_calls = {}
          /\ cancel_flag)
  /\ [][(~scan_handle /\ cancel_flag /\ ~cancel_flag') => pc' = "reset"]_vars
  /\ []((~scan_handle /\ pc = "reset") =>
          /\ ~cancel_flag
          /\ progress_current = 0
          /\ progress_total = 0)

\* A scan was cancelled, and the second call made on the Scanner after
\* that has returned from the first flag check of the loop over the roots:
\* the roots are there, nothing was visited.
C38_Witness ==
  /\ ~scan_handle
  /\ pc = "returned"
  /\ calls_since_cancel = MaxCalls
  /\ cancelled_at = "idle"
  /\ returned_from = "next_root"
  /\ roots # <<>>
  /\ result = DefaultScanResult

====
